---------------------------- MODULE Spec2Model ----------------------------
(***************************************************************************)
(* A model of the streaming I/O core of the codec library: the chained     *)
(* reader (payload + trailer callback), the typed Reader with its source   *)
(* adapters, the typed Writer with nested writers, and the constructors.   *)
(*                                                                         *)
(* Conventions.                                                            *)
(*  - An error value is a sequence of strings, outermost message first;    *)
(*    Nil is the empty sequence.  fmt.Errorf("...: %w", e) prepends a      *)
(*    message, errors.Unwrap is Tail and errors.Is looks for a suffix.     *)
(*  - The byte at absolute index i of a source has value i, so that the    *)
(*    identity of every delivered byte can be checked.                     *)
(*  - Each component has its own specification; the variables of the       *)
(*    other components stay at their idle value.                           *)
(***************************************************************************)
EXTENDS Integers, Sequences, FiniteSets, TLC

VARIABLES chain, rd, wr, ct, cd, bo, cl, bw, fs, pk, lm, sz, vf, nt

vars == <<chain, rd, wr, ct, cd, bo, cl, bw, fs, pk, lm, sz, vf, nt>>

(***************************************************************************)
(* Bounds of the model.                                                    *)
(***************************************************************************)
MaxSrc == 4
MaxN == 3
MaxRead == 3
MaxTrailer == 1
MaxSeeks == 2

(***************************************************************************)
(* Errors.                                                                 *)
(***************************************************************************)
Nil == <<>>
EOF == <<"EOF">>
ErrUnexpectedEOF == <<"unexpected EOF">>
ErrInvalidSeek == <<"codec: seek to a invalid position">>
ErrUnsupportedNegativeSeek == <<"codec: unsupported negative offset for forward-only seeker">>
ErrInvalidWhence == <<"codec: unsupported whence for forward-only seeker">>
ErrCallback == <<"trailer callback failed">>

Wrap(msg, e) == <<msg>> \o e

ErrorsIs(err, target) ==
    /\ target # Nil
    /\ \E i \in 1..Len(err) : SubSeq(err, i, Len(err)) = target

Min(a, b) == IF a <= b THEN a ELSE b
Max(a, b) == IF a >= b THEN a ELSE b

SeekStart == 0
SeekCurrent == 1
SeekEnd == 2
Whences == {SeekStart, SeekCurrent, SeekEnd, 3}

(***************************************************************************)
(* An arbitrary io.Reader holding len bytes, pos of them already consumed. *)
(* Read(p) with len(p) = m returns <<n, err>>: any 1 <= n <= m available   *)
(* bytes (a short read is allowed), end-of-stream when nothing is left,    *)
(* and possibly end-of-stream together with the last bytes.                *)
(***************************************************************************)
SrcAvail(pos, len) == IF len > pos THEN len - pos ELSE 0

SrcRead(pos, len, m) ==
    LET avail == SrcAvail(pos, len) IN
    IF m = 0
    THEN IF avail = 0 THEN {<<0, EOF>>, <<0, Nil>>} ELSE {<<0, Nil>>}
    ELSE IF avail = 0
         THEN {<<0, EOF>>}
         ELSE {<<n, Nil>> : n \in 1..Min(m, avail)}
              \cup (IF avail <= m THEN {<<avail, EOF>>} ELSE {})

(***************************************************************************)
(*                          CHAINED READER                                 *)
(***************************************************************************)

(* The result of the last call, kept for the properties. *)
NoCall == [op |-> "none", n |-> 0, err |-> Nil, fired |-> FALSE,
           cbErr |-> Nil, callsBefore |-> 0]

(* ChainReader(reader, n, callback): U at its start, R limited to n. *)
ChainReader(len, n, seekable) ==
    [L |-> len, N |-> n, seekable |-> seekable,
     U |-> 0, RN |-> n, E |-> FALSE,
     calls |-> 0, seeks |-> 0,
     passPos |-> 0, passCalls |-> 0, passDelivered |-> 0, passFailed |-> FALSE,
     cbEarly |-> FALSE, eosBeforeCb |-> FALSE,
     last |-> NoCall]

(* if r.E && r.R.N <= 0: the guard of Read and WriteTo. *)
ChainExhausted(c) == c.E /\ c.RN <= 0

(* if r.R.N == 0 || err == io.EOF: the main stream is exhausted. *)
ChainMainDone_Early(rn, err) == rn <= 1 \/ err = EOF
ChainMainDone(rn, err) == rn = 0 \/ err = EOF

(* r.E = true, set before the callback is run, whatever it returns. *)
ChainMarkExecuted_OnSuccess(cbErr) == cbErr = Nil
ChainMarkExecuted_Never(cbErr) == FALSE
ChainMarkExecuted(cbErr) == TRUE

(* Seek: r.E = false after a successful seek of the underlying reader. *)
ChainSeekExecuted_Kept(e) == e
ChainSeekExecuted(e) == FALSE

(* r.C(r.U): the callback reads t trailer bytes from U and returns cbErr. *)
ChainRunCallback(c, t, cbErr) ==
    [c EXCEPT !.U = c.U + t,
              !.E = ChainMarkExecuted(cbErr),
              !.calls = c.calls + 1,
              !.passCalls = c.passCalls + 1,
              !.passFailed = c.passFailed \/ cbErr # Nil,
              !.cbEarly = c.cbEarly \/ c.U < Min(c.L, c.N)]

(* io.LimitedReader.Read: at most R.N bytes of p are offered to U. *)
LimitedReads(c, m) ==
    IF c.RN <= 0 THEN {<<0, EOF>>} ELSE SrcRead(c.U, c.L, Min(m, c.RN))

(* ChainedReader.Read(p), len(p) = m; rr = <<n, err>> is what R.Read gave. *)
ChainedReader_Read(c, m, rr, t, cbErr) ==
    LET n == rr[1]
        err == rr[2]
        done == ChainExhausted(c)
        c1 == [c EXCEPT !.U = c.U + n, !.RN = c.RN - n,
                        !.passDelivered = c.passDelivered + n]
        c2 == ChainRunCallback(c1, t, cbErr)
        res(e, f) == [op |-> "Read", n |-> n, err |-> e, fired |-> f,
                      cbErr |-> IF f THEN cbErr ELSE Nil, callsBefore |-> c.calls]
        eos(cc, r) == [cc EXCEPT !.last = r,
                         !.eosBeforeCb = cc.eosBeforeCb
                                          \/ (r.err = EOF /\ cc.passCalls = 0)]
    IN  IF done
        THEN eos(c, [op |-> "Read", n |-> 0, err |-> EOF, fired |-> FALSE,
                     cbErr |-> Nil, callsBefore |-> c.calls])
        ELSE IF ChainMainDone(c1.RN, err)
             THEN IF c1.E
                  THEN eos(c1, res(EOF, FALSE))
                  ELSE IF cbErr # Nil
                       THEN eos(c2, res(Wrap("chained action failed after reading main stream", cbErr), TRUE))
                       ELSE eos(c2, res(IF err = Nil THEN EOF ELSE err, TRUE))
             ELSE eos(c1, res(err, FALSE))

(* io.CopyN(w, r.R, r.R.N) to a destination that accepts every byte:      *)
(* <<written, err>>.                                                      *)
CopyN(c) ==
    IF c.RN <= 0
    THEN <<0, Nil>>
    ELSE LET w == Min(c.RN, SrcAvail(c.U, c.L))
         IN  <<w, IF w < c.RN THEN EOF ELSE Nil>>

(* ChainedReader.WriteTo(w). *)
ChainedReader_WriteTo(c, t, cbErr) ==
    LET done == ChainExhausted(c)
        cp == CopyN(c)
        n == cp[1]
        c1 == [c EXCEPT !.U = c.U + n, !.RN = c.RN - n,
                        !.passDelivered = c.passDelivered + n]
        c2 == ChainRunCallback(c1, t, cbErr)
        res(e, f) == [op |-> "WriteTo", n |-> n, err |-> e, fired |-> f,
                      cbErr |-> IF f THEN cbErr ELSE Nil, callsBefore |-> c.calls]
    IN  IF done
        THEN [c EXCEPT !.last = [op |-> "WriteTo", n |-> 0, err |-> Nil,
                                 fired |-> FALSE, cbErr |-> Nil, callsBefore |-> c.calls]]
        ELSE IF cp[2] # Nil
             THEN [c1 EXCEPT !.last = res(cp[2], FALSE)]
             ELSE IF c1.E
                  THEN [c1 EXCEPT !.last = res(Nil, FALSE)]
                  ELSE IF cbErr # Nil
                       THEN [c2 EXCEPT !.last = res(Wrap("chained action failed after writing main stream", cbErr), TRUE)]
                       ELSE [c2 EXCEPT !.last = res(Nil, TRUE)]

(* The Seek of a seekable byte source: <<newPos, err>>. *)
SrcSeek(pos, len, offset, whence) ==
    LET abs == CASE whence = SeekStart -> offset
                 [] whence = SeekCurrent -> pos + offset
                 [] whence = SeekEnd -> len + offset
                 [] OTHER -> -1
    IN  IF whence \notin {SeekStart, SeekCurrent, SeekEnd}
        THEN <<0, ErrInvalidWhence>>
        ELSE IF abs < 0 THEN <<0, ErrInvalidSeek>> ELSE <<abs, Nil>>

(* ChainedReadSeeker.Seek(offset, whence). *)
ChainedReadSeeker_Seek(c, offset, whence) ==
    LET sk == SrcSeek(c.U, c.L, offset, whence)
        n == sk[1]
    IN  IF sk[2] # Nil
        THEN [c EXCEPT !.last = [op |-> "Seek", n |-> n, err |-> sk[2],
                                 fired |-> FALSE, cbErr |-> Nil, callsBefore |-> c.calls]]
        ELSE [c EXCEPT !.U = n,
                       !.RN = c.N - n,
                       !.E = ChainSeekExecuted(c.E),
                       !.seeks = c.seeks + 1,
                       !.passPos = n, !.passCalls = 0, !.passDelivered = 0,
                       !.passFailed = FALSE,
                       !.last = [op |-> "Seek", n |-> n, err |-> Nil,
                                 fired |-> FALSE, cbErr |-> Nil, callsBefore |-> c.calls]]

CbErrs == {Nil, ErrCallback}
Trailers(c) == 0..MaxTrailer

IdleChain == ChainReader(0, 0, FALSE)
IdleRd == [kind |-> "idle"]
IdleWr == [kind |-> "idle"]
IdleCt == [kind |-> "idle"]
IdleCd == [kind |-> "idle"]
IdleBo == [kind |-> "idle"]
IdleCl == [kind |-> "idle"]
IdleBw == [kind |-> "idle"]
IdleFs == [kind |-> "idle"]
IdlePk == [kind |-> "idle"]
IdleLm == [kind |-> "idle"]
IdleSz == [kind |-> "idle"]
IdleVf == [kind |-> "idle"]
IdleNt == [kind |-> "idle"]

InitChain ==
    /\ chain \in {ChainReader(len, n, s) : len \in 0..MaxSrc, n \in 0..MaxN, s \in BOOLEAN}
    /\ rd = IdleRd /\ wr = IdleWr /\ ct = IdleCt /\ cd = IdleCd
    /\ bo = IdleBo /\ cl = IdleCl /\ bw = IdleBw /\ fs = IdleFs /\ pk = IdlePk
    /\ lm = IdleLm /\ sz = IdleSz /\ vf = IdleVf /\ nt = IdleNt

ChainRead ==
    /\ \E m \in 0..MaxRead, t \in Trailers(chain), cbErr \in CbErrs :
         \E rr \in LimitedReads(chain, m) :
            chain' = ChainedReader_Read(chain, m, rr, t, cbErr)
    /\ UNCHANGED <<rd, wr, ct, cd, bo, cl, bw, fs, pk, lm, sz, vf, nt>>

ChainWriteTo ==
    /\ \E t \in Trailers(chain), cbErr \in CbErrs :
            chain' = ChainedReader_WriteTo(chain, t, cbErr)
    /\ UNCHANGED <<rd, wr, ct, cd, bo, cl, bw, fs, pk, lm, sz, vf, nt>>

ChainSeek ==
    /\ chain.seekable
    /\ chain.seeks < MaxSeeks
    /\ \E offset \in (0 - MaxSrc)..MaxSrc, whence \in Whences :
            chain' = ChainedReadSeeker_Seek(chain, offset, whence)
    /\ UNCHANGED <<rd, wr, ct, cd, bo, cl, bw, fs, pk, lm, sz, vf, nt>>

NextChain == ChainRead \/ ChainWriteTo \/ ChainSeek

SpecChain == InitChain /\ [][NextChain]_vars

(***************************************************************************)
(* Properties of the chained reader.                                       *)
(***************************************************************************)
ChainDrainOp == chain.last.op \in {"Read", "WriteTo"}

C7_CallbackFailure ==
    /\ (chain.last.fired /\ chain.last.cbErr # Nil =>
           /\ ErrorsIs(chain.last.err, chain.last.cbErr)
           /\ chain.last.err # chain.last.cbErr
           /\ chain.last.err # EOF
           /\ chain.E)
    /\ (chain.passFailed => chain.passCalls = 1)

(* C7 witness: the callback failed, and a later call of the same pass did  *)
(* not run it again.                                                       *)
C7_Witness ==
    /\ chain.passFailed /\ ChainDrainOp /\ ~chain.last.fired
    /\ chain.last.callsBefore = chain.calls

(* A Read or a WriteTo on c delivers no payload byte and does not invoke   *)
(* the callback.                                                           *)
StaysSpent(c) ==
    \A t \in Trailers(c), cbErr \in CbErrs :
        /\ \A m \in 0..MaxRead : \A rr \in LimitedReads(c, m) :
               LET c2 == ChainedReader_Read(c, m, rr, t, cbErr)
               IN  c2.last.n = 0 /\ ~c2.last.fired /\ c2.calls = c.calls
        /\ LET c3 == ChainedReader_WriteTo(c, t, cbErr)
           IN  c3.last.n = 0 /\ ~c3.last.fired /\ c3.calls = c.calls

(* The step is a successful Seek, made once the payload was drained and    *)
(* the callback had fired, to a position at or after the bound.            *)
SeekPastPayload(c, c2) ==
    /\ ChainExhausted(c) /\ c.calls > 0
    /\ c2.seeks = c.seeks + 1 /\ c2.last.op = "Seek" /\ c2.last.err = Nil
    /\ c2.last.n >= c.N

(* C37: chained reader, seek outside the payload. After the payload has    *)
(* been drained and the callback has fired, a successful Seek whose        *)
(* resulting position is >= N, the position query Seek(0, SeekCurrent)     *)
(* included, does not re-arm the callback: subsequent Read and WriteTo     *)
(* calls deliver 0 payload bytes and do not invoke the callback again.     *)
C37_SeekOutsidePayload ==
    [][SeekPastPayload(chain, chain') => StaysSpent(chain')]_vars

(* The states a new reader can end in when it is drained by Read calls     *)
(* until one returns an error, end-of-stream included.                     *)
RECURSIVE ReadUntilEOS(_, _, _)
ReadUntilEOS(c, t, cbErr) ==
    UNION {UNION {LET c2 == ChainedReader_Read(c, m, rr, t, cbErr)
                  IN  IF c2.last.err # Nil THEN {c2} ELSE ReadUntilEOS(c2, t, cbErr)
                  : rr \in LimitedReads(c, m)}
           : m \in 1..MaxRead}

(* What the two ways of draining are compared on. *)
Drained(c) == [delivered |-> c.passDelivered, calls |-> c.calls, E |-> c.E]

(* C38: chained reader path equivalence. For every source length L, L < N  *)
(* included, and every callback, draining a new ChainedReader by repeated  *)
(* Read until end-of-stream and draining it by one WriteTo deliver the     *)
(* same payload bytes, the first min(L, N), and invoke the callback the    *)
(* same number of times, leaving the executed flag in the same state.      *)
C38_PathEquivalence ==
    chain.last.op = "none" =>
        \A t \in Trailers(chain), cbErr \in CbErrs :
            \A byRead \in ReadUntilEOS(chain, t, cbErr) :
                /\ Drained(byRead) = Drained(ChainedReader_WriteTo(chain, t, cbErr))
                /\ byRead.passDelivered = Min(chain.L, chain.N)

(***************************************************************************)
(*                            TYPED READER                                 *)
(***************************************************************************)
MaxRdLen == 4
MaxSeekOff == 4
MaxAlign == 4
(* if size < 16: the smallest buffer of the default buffered adapter. *)
MinBufSize == 16

ErrWriteToNil == <<"codec: WriteTo called with a nil io.Writer">>
ErrReadToNil == <<"codec: ReadTo called with a nil io.ReaderFrom">>
ErrDiscardNegative == <<"codec: cannot discard negative number of bytes">>
ErrBytesReaderWhence == <<"bytes.Reader.Seek: invalid whence">>
ErrBytesReaderNegative == <<"bytes.Reader.Seek: negative position">>
ErrOsInvalid == <<"seek: invalid argument">>

(* The adapter NewReaderSize puts under a typed Reader:                    *)
(*   BytesReader  the library's byte-slice source (seekable)               *)
(*   bytesReader  bytesReaderAdapter over a bytes.Reader (seekable)        *)
(*   bytesBuffer  bytesBufferReaderAdapter over a bytes.Buffer             *)
(*   bufioExt     bufioReaderAdapter over a caller's bufio.Reader, no      *)
(*                seeker                                                   *)
(*   bufioFwd     the default bufioReaderAdapter over an arbitrary         *)
(*                io.Reader, seeker = ForwardSeeker(r)                     *)
(*   bufioSeek    the default bufioReaderAdapter over an io.ReadSeeker,    *)
(*                seeker = r                                               *)
RdKinds == {"BytesReader", "bytesReader", "bytesBuffer", "bufioExt", "bufioFwd", "bufioSeek"}
BufioKinds == {"bufioExt", "bufioFwd", "bufioSeek"}
NonSeekableKinds == {"bytesBuffer", "bufioExt", "bufioFwd"}

NoRdCall == [op |-> "none", n |-> 0, err |-> Nil, latched |-> FALSE]

(* &Reader{r: adapter, order: Order}: a source of len bytes at its start.  *)
(*  src    absolute index of the next byte the raw source gives            *)
(*  bufLo, bufN  the bytes held by the bufio.Reader: bufLo .. bufLo+bufN-1 *)
(*  pos    the adapter's pos (N of a BytesReader)                          *)
(*  fsOff  forwardSeeker.offset; viaFS: the bufio.Reader was Reset onto    *)
(*         the forwardSeeker and now reads through it                      *)
NewReaderOver(kind, len) ==
    [kind |-> kind, L |-> len, src |-> 0, bufLo |-> 0, bufN |-> 0, pos |-> 0,
     fsOff |-> 0, viaFS |-> FALSE,
     count |-> 0, err |-> Nil, dest |-> <<>>, last |-> NoRdCall]

(* What the caller can still be given: buffered bytes, then source bytes. *)
RdRemaining(r) == r.bufN + SrcAvail(r.src, r.L)

SrcBytes(from, n) == [i \in 1..n |-> from + i - 1]

Out(r, n, err, bytes) == [r |-> r, n |-> n, err |-> err, bytes |-> bytes]

(* The raw source read by the bufio.Reader (through the forwardSeeker once *)
(* it was Reset onto it): k bytes consumed.                                *)
RawConsume(r, k) ==
    [r EXCEPT !.src = r.src + k,
              !.fsOff = IF r.viaFS THEN r.fsOff + k ELSE r.fsOff]

(* bufio.Reader.Read(p), len(p) = m, with the adapter's pos += n. *)
BufioRead(r, m) ==
    IF m = 0
    THEN {Out(r, 0, Nil, <<>>)}
    ELSE IF r.bufN > 0
    THEN LET n == Min(m, r.bufN)
         IN  {Out([r EXCEPT !.bufLo = r.bufLo + n, !.bufN = r.bufN - n,
                            !.pos = r.pos + n], n, Nil, SrcBytes(r.bufLo, n))}
    ELSE IF m >= MinBufSize
    THEN {Out([RawConsume(r, rr[1]) EXCEPT !.pos = r.pos + rr[1]],
              rr[1], rr[2], SrcBytes(r.src, rr[1])) : rr \in SrcRead(r.src, r.L, m)}
    ELSE {IF rr[1] = 0
          THEN Out(r, 0, rr[2], <<>>)
          ELSE LET n == Min(m, rr[1])
               IN  Out([RawConsume(r, rr[1]) EXCEPT !.bufLo = r.src + n,
                                                    !.bufN = rr[1] - n,
                                                    !.pos = r.pos + n],
                       n, Nil, SrcBytes(r.src, n))
          : rr \in SrcRead(r.src, r.L, MinBufSize)}

(* BytesReader.Read, bytes.Reader.Read: end-of-stream first, then copy. *)
BytesReader_Read(r, m) ==
    LET av == SrcAvail(r.src, r.L)
        n == Min(m, av)
    IN  IF av = 0
        THEN {Out(r, 0, EOF, <<>>)}
        ELSE {Out([r EXCEPT !.src = r.src + n, !.pos = r.src + n], n, Nil,
                  SrcBytes(r.src, n))}

(* bytesBufferReaderAdapter.Read: bytes.Buffer.Read, then r.pos += n. *)
bytesBufferReaderAdapter_Read(r, m) ==
    LET av == SrcAvail(r.src, r.L)
        n == Min(m, av)
    IN  IF av = 0
        THEN {Out(r, 0, IF m = 0 THEN Nil ELSE EOF, <<>>)}
        ELSE {Out([r EXCEPT !.src = r.src + n, !.pos = r.pos + n], n, Nil,
                  SrcBytes(r.src, n))}

(* r.r.Read(p) *)
AdRead(r, m) ==
    CASE r.kind \in {"BytesReader", "bytesReader"} -> BytesReader_Read(r, m)
      [] r.kind = "bytesBuffer" -> bytesBufferReaderAdapter_Read(r, m)
      [] OTHER -> BufioRead(r, m)

(* r.r.ReadByte(): one byte, or the error with nothing consumed. *)
AdReadByte(r) == AdRead(r, 1)

(* setError records the first non-nil error. *)
SetError(r, err) == IF r.err = Nil /\ err # Nil THEN [r EXCEPT !.err = err] ELSE r

(* if r.err != nil { return ... }: the guard that opens every method. *)
Latched_Never(r) == FALSE
Latched(r) == r.err # Nil

(* Reader.Read(p): <<reader, n, err, bytes>> outcomes. *)
Reader_Read(r, m) ==
    IF Latched(r)
    THEN {Out(r, 0, r.err, <<>>)}
    ELSE {LET r1 == SetError([o.r EXCEPT !.count = o.r.count + o.n], o.err)
          IN  Out(r1, o.n, r1.err, o.bytes) : o \in AdRead(r, m)}

(* io.ReadFull(r, buf): Reader.Read until need bytes came or an error did; *)
(* an end-of-stream after some bytes becomes ErrUnexpectedEOF.             *)
RECURSIVE ReadFullLoop(_, _, _)
ReadFullLoop(r, need, acc) ==
    IF need = 0
    THEN {Out(r, Len(acc), Nil, acc)}
    ELSE UNION {
           IF o.err # Nil
           THEN LET got == Len(acc) + o.n
                IN  {Out(o.r, got,
                         IF o.n >= need THEN Nil
                         ELSE IF got > 0 /\ o.err = EOF THEN ErrUnexpectedEOF
                         ELSE o.err,
                         acc \o o.bytes)}
           ELSE ReadFullLoop(o.r, need - o.n, acc \o o.bytes)
           : o \in Reader_Read(r, need)}

IoReadFull(r, n) == ReadFullLoop(r, n, <<>>)

(* readFull: if err == io.EOF { r.err = io.ErrUnexpectedEOF } else r.err = err *)
ReadFullError_Kept(err) == err
ReadFullError(err) == IF err = EOF THEN ErrUnexpectedEOF ELSE err

(* Reader.readFull(n): the reader after the call; bytes = nil on error. *)
Reader_readFull(r, n) ==
    IF Latched(r)
    THEN {Out(r, 0, r.err, <<>>)}
    ELSE {IF o.err # Nil
          THEN Out([o.r EXCEPT !.err = ReadFullError(o.err)], 0, ReadFullError(o.err), <<>>)
          ELSE o
          : o \in IoReadFull(r, n)}

(* What the caller saw of the last call: the method, the count and error *)
(* it returned (r.err for the methods that return nothing), and whether   *)
(* the reader was already latched when it was called.                     *)
Call(op, n, err, latched) == [op |-> op, n |-> n, err |-> err, latched |-> latched]

(* ReadBool, ReadUint8, ReadInt8, ReadByte: r.r.ReadByte(), then count++   *)
(* and *dest = b, or r.err = err.                                          *)
Reader_ReadByteLike(r, op) ==
    IF Latched(r)
    THEN {[r EXCEPT !.last = Call(op, 0, r.err, TRUE)]}
    ELSE {IF o.err = Nil
          THEN [o.r EXCEPT !.count = o.r.count + 1,
                           !.dest = IF op = "ReadByte" THEN o.r.dest ELSE o.bytes,
                           !.last = Call(op, 1, Nil, FALSE)]
          ELSE [o.r EXCEPT !.err = o.err,
                           !.last = Call(op, 0, o.err, FALSE)]
          : o \in AdReadByte(r)}

(* ReadUint16/32/64, ReadInt16/32/64: buf := r.readFull(w);                *)
(* if r.err == nil { *dest = r.order.UintW(buf) }.                         *)
Reader_ReadWide(r, op, w) ==
    {[o.r EXCEPT !.dest = IF o.r.err = Nil THEN o.bytes ELSE o.r.dest,
                 !.last = Call(op, o.n, o.r.err, Latched(r))]
     : o \in Reader_readFull(r, w)}

(* ReadBytes(n): nil for n <= 0, else readFull(n). *)
Reader_ReadBytes(r, n) ==
    IF n <= 0
    THEN {[r EXCEPT !.last = Call("ReadBytes", 0, r.err, Latched(r))]}
    ELSE {[o.r EXCEPT !.last = Call("ReadBytes", o.n, o.r.err, Latched(r))]
          : o \in Reader_readFull(r, n)}

(* ReadBytesTo(dest): io.ReadFull(r, dest), r.err = err as it comes. *)
Reader_ReadBytesTo(r, n) ==
    IF Latched(r) \/ n = 0
    THEN {[r EXCEPT !.last = Call("ReadBytesTo", 0, r.err, Latched(r))]}
    ELSE {[o.r EXCEPT !.err = IF o.err # Nil THEN o.err ELSE o.r.err,
                      !.last = Call("ReadBytesTo", o.n, o.err, FALSE)]
          : o \in IoReadFull(r, n)}

(* Reader.Read(p) as the caller's call. *)
Reader_ReadCall(r, m) ==
    {[o.r EXCEPT !.last = Call("Read", o.n, o.err, Latched(r))]
     : o \in Reader_Read(r, m)}

(* const BUFFER_SIZE = 4096 *)
BUFFER_SIZE == 4096

(* a &^ b on non-negative integers *)
RECURSIVE AndNot(_, _)
AndNot(a, b) ==
    IF a = 0 THEN 0
    ELSE (IF a % 2 = 1 /\ b % 2 = 0 THEN 1 ELSE 0) + 2 * AndNot(a \div 2, b \div 2)

(* MAX_PADDING: the most trailing bytes CheckTrailingNotZeros reads. *)
MAX_PADDING == 1024

(* Roundup(n, align) = (n + (align - 1)) &^ (align - 1) *)
Roundup(n, align) == AndNot(n + (align - 1), align - 1)

(* forwardSeeker.r.Read: the raw source, not counted in offset. *)
RawRead(r, m) ==
    {Out([r EXCEPT !.src = r.src + rr[1]], rr[1], rr[2], <<>>) : rr \in SrcRead(r.src, r.L, m)}

(* An io.Reader over the bytes B that a decoder reads: a BytesReader       *)
(* (chunk "full": a Read gives all it can) or a stream that gives one byte *)
(* a Read (chunk "byte"); at the end a Read returns endErr.                *)
SourceOver(bytes, chunk, endErr) == [B |-> bytes, N |-> 0, chunk |-> chunk, endErr |-> endErr]

(* r.Read(p), len(p) = m *)
SourceRead(r, m) ==
    LET avail == Len(r.B) - r.N
        n == IF r.chunk = "byte" THEN Min(1, m) ELSE Min(m, avail)
    IN  IF avail <= 0 THEN Out(r, 0, r.endErr, <<>>)
        ELSE Out([r EXCEPT !.N = r.N + n], n, Nil, SubSeq(r.B, r.N + 1, r.N + n))

(* The io.Reader handed to Discard: the raw source (from forwardSeeker),   *)
(* the buffered adapter (from bufioReaderAdapter.Seek), the typed Reader   *)
(* (from Align) or the source of a list (from list.ReadFrom).              *)
ReadVia(via, r, m) ==
    CASE via = "raw" -> RawRead(r, m)
      [] via = "bufio" -> BufioRead(r, m)
      [] via = "source" -> {SourceRead(r, m)}
      [] OTHER -> Reader_Read(r, m)

(* io.CopyN(io.Discard, r, n): Read until n bytes went by or an error did; *)
(* an end-of-stream before n bytes is returned as io.EOF.                  *)
RECURSIVE DiscardCopyN(_, _, _, _)
DiscardCopyN(via, r, n, done) ==
    IF done = n
    THEN {Out(r, done, Nil, <<>>)}
    ELSE UNION {IF o.err # Nil
                THEN {Out(o.r, done + o.n, IF done + o.n = n THEN Nil ELSE o.err, <<>>)}
                ELSE DiscardCopyN(via, o.r, n, done + o.n)
                : o \in ReadVia(via, r, n - done)}

(* Discard(r, n): for n <= BUFFER_SIZE a single r.Read(discard[:n]). *)
Discard(via, r, n) ==
    IF n = 0 THEN {Out(r, 0, Nil, <<>>)}
    ELSE IF n < 0 THEN {Out(r, 0, ErrDiscardNegative, <<>>)}
    ELSE IF n <= BUFFER_SIZE THEN ReadVia(via, r, n)
    ELSE DiscardCopyN(via, r, n, 0)

(* forwardSeeker.Seek(offset, whence): <<reader, s.offset, err>> *)
forwardSeeker_Seek(r, offset, whence) ==
    LET skip == IF whence = SeekCurrent THEN offset ELSE offset - r.fsOff
    IN  IF whence = SeekStart /\ offset < r.fsOff
        THEN {Out(r, r.fsOff, Wrap("cannot seek from start", ErrUnsupportedNegativeSeek), <<>>)}
        ELSE IF whence \notin {SeekStart, SeekCurrent}
        THEN {Out(r, r.fsOff, Wrap("value is not supported", ErrInvalidWhence), <<>>)}
        ELSE IF skip < 0 THEN {Out(r, r.fsOff, ErrUnsupportedNegativeSeek, <<>>)}
        ELSE IF skip = 0 THEN {Out(r, r.fsOff, Nil, <<>>)}
        ELSE {Out([o.r EXCEPT !.fsOff = r.fsOff + o.n], r.fsOff + o.n, o.err, <<>>)
              : o \in Discard("raw", r, skip)}

(* Seek of the io.ReadSeeker under the default buffered adapter. *)
RawSeek(r, offset, whence) ==
    LET abs == CASE whence = SeekStart -> offset
                 [] whence = SeekCurrent -> r.src + offset
                 [] OTHER -> r.L + offset
    IN  IF whence \notin {SeekStart, SeekCurrent, SeekEnd} \/ abs < 0
        THEN {Out(r, 0, ErrOsInvalid, <<>>)}
        ELSE {Out([r EXCEPT !.src = abs], abs, Nil, <<>>)}

(* b.seeker.Seek *)
SeekerSeek(r, offset, whence) ==
    IF r.kind = "bufioFwd" THEN forwardSeeker_Seek(r, offset, whence)
    ELSE RawSeek(r, offset, whence)

(* bufioReaderAdapter.Seek once target is known; r may have had its source *)
(* moved by the SeekEnd probe.                                             *)
bufioReaderAdapter_SeekTo(r, target) ==
    IF r.pos <= target /\ target < r.pos + r.bufN
    THEN LET skip == target - r.pos
         IN  {Out([r EXCEPT !.bufLo = r.bufLo + skip, !.bufN = r.bufN - skip,
                            !.pos = target], target, Nil, <<>>)}
    ELSE IF r.kind # "bufioExt"
    THEN {IF o.err # Nil
          THEN Out(o.r, 0, o.err, <<>>)
          ELSE Out([o.r EXCEPT !.bufLo = o.r.src, !.bufN = 0, !.pos = o.n,
                               !.viaFS = (r.kind = "bufioFwd")], o.n, Nil, <<>>)
          : o \in SeekerSeek(r, target, SeekStart)}
    ELSE IF target < r.pos
    THEN {Out(r, r.pos, ErrUnsupportedNegativeSeek, <<>>)}
    ELSE {Out(o.r, o.r.pos, o.err, <<>>) : o \in Discard("bufio", r, target - r.pos)}

bufioReaderAdapter_Seek(r, offset, whence) ==
    CASE whence = SeekStart -> bufioReaderAdapter_SeekTo(r, offset)
      [] whence = SeekCurrent -> bufioReaderAdapter_SeekTo(r, r.pos + offset)
      [] whence = SeekEnd ->
           IF r.kind = "bufioExt"
           THEN {Out(r, r.pos, ErrInvalidWhence, <<>>)}
           ELSE UNION {IF e.err # Nil
                       THEN {Out(e.r, 0, e.err, <<>>)}
                       ELSE bufioReaderAdapter_SeekTo(e.r, e.n + offset)
                       : e \in SeekerSeek(r, 0, SeekEnd)}
      [] OTHER -> {Out(r, 0, ErrInvalidWhence, <<>>)}

bytesBufferReaderAdapter_Seek_Rewinds(r, offset, whence) ==
    LET target == IF whence = SeekStart THEN offset ELSE r.pos + offset
        to == Min(Max(target, 0), r.L)
    IN  IF whence \notin {SeekStart, SeekCurrent}
        THEN {Out(r, r.pos, ErrInvalidWhence, <<>>)}
        ELSE {Out([r EXCEPT !.src = to, !.pos = to], to, Nil, <<>>)}
bytesBufferReaderAdapter_Seek(r, offset, whence) ==
    LET target == IF whence = SeekStart THEN offset ELSE r.pos + offset
        skip == Min(target - r.pos, SrcAvail(r.src, r.L))
    IN  IF whence \notin {SeekStart, SeekCurrent}
        THEN {Out(r, r.pos, ErrInvalidWhence, <<>>)}
        ELSE IF target - r.pos < 0
        THEN {Out(r, r.pos, ErrUnsupportedNegativeSeek, <<>>)}
        ELSE {Out([r EXCEPT !.src = r.src + skip, !.pos = r.pos + skip],
                  r.pos + skip, Nil, <<>>)}

(* BytesReader.Seek and, with its own error values, bytes.Reader.Seek. *)
BytesReader_Seek(r, offset, whence) ==
    LET abs == CASE whence = SeekStart -> offset
                 [] whence = SeekCurrent -> r.src + offset
                 [] OTHER -> r.L + offset
        own == r.kind = "BytesReader"
    IN  IF whence \notin {SeekStart, SeekCurrent, SeekEnd}
        THEN {Out(r, 0, IF own THEN ErrInvalidWhence ELSE ErrBytesReaderWhence, <<>>)}
        ELSE IF abs < 0
        THEN {Out(r, 0, IF own THEN ErrInvalidSeek ELSE ErrBytesReaderNegative, <<>>)}
        ELSE {Out([r EXCEPT !.src = abs, !.pos = abs], abs, Nil, <<>>)}

(* r.r.Seek(offset, whence) *)
AdSeek(r, offset, whence) ==
    CASE r.kind \in {"BytesReader", "bytesReader"} -> BytesReader_Seek(r, offset, whence)
      [] r.kind = "bytesBuffer" -> bytesBufferReaderAdapter_Seek(r, offset, whence)
      [] OTHER -> bufioReaderAdapter_Seek(r, offset, whence)

(* Reader.Seek: r.count = newPos; r.setError(err); return newPos, err *)
Reader_Seek(r, offset, whence) ==
    IF Latched(r)
    THEN {[r EXCEPT !.last = Call("Seek", r.count, r.err, TRUE)]}
    ELSE {[SetError([o.r EXCEPT !.count = o.n], o.err)
             EXCEPT !.last = Call("Seek", o.n, o.err, FALSE)]
          : o \in AdSeek(r, offset, whence)}

(* r.r.WriteTo(w), w.ReadFrom(r.r) with a destination that takes every     *)
(* byte: the held bytes and the rest of the source, n of them, nil error.  *)
AdDrain(r) ==
    LET fromSrc == SrcAvail(r.src, r.L)
        n == r.bufN + fromSrc
        r1 == RawConsume(r, fromSrc)
    IN  Out([r1 EXCEPT !.bufLo = r1.src, !.bufN = 0, !.pos = r.pos + n], n, Nil, <<>>)

(* Reader.WriteTo(w), Reader.ReadTo(w); nilDst: w == nil. *)
Reader_Drain(r, op, nilDst) ==
    IF Latched(r)
    THEN [r EXCEPT !.last = Call(op, 0, r.err, TRUE)]
    ELSE IF nilDst
    THEN LET e == IF op = "WriteTo" THEN ErrWriteToNil ELSE ErrReadToNil
         IN  [r EXCEPT !.err = e, !.last = Call(op, 0, e, FALSE)]
    ELSE LET o == AdDrain(r)
         IN  [o.r EXCEPT !.count = o.r.count + o.n,
                         !.last = Call(op, o.n, Nil, FALSE)]

(* Reader.Align(n): if n > 1 { Discard(r, Roundup(r.count, n) - r.count) } *)
Reader_Align(r, n) ==
    IF n > 1
    THEN {[o.r EXCEPT !.last = Call("Align", o.n, o.r.err, Latched(r))]
          : o \in Discard("reader", r, Roundup(r.count, n) - r.count)}
    ELSE {[r EXCEPT !.last = Call("Align", 0, r.err, Latched(r))]}

InitReader ==
    /\ rd \in {NewReaderOver(kind, len) : kind \in RdKinds, len \in 0..MaxRdLen}
    /\ chain = IdleChain
    /\ wr = IdleWr
    /\ ct = IdleCt
    /\ cd = IdleCd
    /\ bo = IdleBo /\ cl = IdleCl /\ bw = IdleBw /\ fs = IdleFs /\ pk = IdlePk
    /\ lm = IdleLm /\ sz = IdleSz /\ vf = IdleVf /\ nt = IdleNt

ReadBool == rd' \in Reader_ReadByteLike(rd, "ReadBool") /\ UNCHANGED <<chain, wr, ct, cd, bo, cl, bw, fs, pk, lm, sz, vf, nt>>
ReadByte == rd' \in Reader_ReadByteLike(rd, "ReadByte") /\ UNCHANGED <<chain, wr, ct, cd, bo, cl, bw, fs, pk, lm, sz, vf, nt>>
ReadUint8 == rd' \in Reader_ReadByteLike(rd, "ReadUint8") /\ UNCHANGED <<chain, wr, ct, cd, bo, cl, bw, fs, pk, lm, sz, vf, nt>>
ReadInt8 == rd' \in Reader_ReadByteLike(rd, "ReadInt8") /\ UNCHANGED <<chain, wr, ct, cd, bo, cl, bw, fs, pk, lm, sz, vf, nt>>
ReadUint16 == rd' \in Reader_ReadWide(rd, "ReadUint16", 2) /\ UNCHANGED <<chain, wr, ct, cd, bo, cl, bw, fs, pk, lm, sz, vf, nt>>
ReadUint32 == rd' \in Reader_ReadWide(rd, "ReadUint32", 4) /\ UNCHANGED <<chain, wr, ct, cd, bo, cl, bw, fs, pk, lm, sz, vf, nt>>
ReadUint64 == rd' \in Reader_ReadWide(rd, "ReadUint64", 8) /\ UNCHANGED <<chain, wr, ct, cd, bo, cl, bw, fs, pk, lm, sz, vf, nt>>
ReadInt16 == rd' \in Reader_ReadWide(rd, "ReadInt16", 2) /\ UNCHANGED <<chain, wr, ct, cd, bo, cl, bw, fs, pk, lm, sz, vf, nt>>
ReadInt32 == rd' \in Reader_ReadWide(rd, "ReadInt32", 4) /\ UNCHANGED <<chain, wr, ct, cd, bo, cl, bw, fs, pk, lm, sz, vf, nt>>
ReadInt64 == rd' \in Reader_ReadWide(rd, "ReadInt64", 8) /\ UNCHANGED <<chain, wr, ct, cd, bo, cl, bw, fs, pk, lm, sz, vf, nt>>
ReadBytes == \E n \in 0..MaxRead : rd' \in Reader_ReadBytes(rd, n) /\ UNCHANGED <<chain, wr, ct, cd, bo, cl, bw, fs, pk, lm, sz, vf, nt>>
ReadBytesTo == \E n \in 0..MaxRead : rd' \in Reader_ReadBytesTo(rd, n) /\ UNCHANGED <<chain, wr, ct, cd, bo, cl, bw, fs, pk, lm, sz, vf, nt>>
Read == \E m \in 0..MaxRead : rd' \in Reader_ReadCall(rd, m) /\ UNCHANGED <<chain, wr, ct, cd, bo, cl, bw, fs, pk, lm, sz, vf, nt>>
Seek ==
    \E offset \in (0 - MaxSeekOff)..MaxSeekOff, whence \in Whences :
        /\ whence = SeekCurrent => rd.pos + offset <= MaxSeekOff
        /\ whence = SeekEnd => rd.L + offset <= MaxSeekOff
        /\ rd' \in Reader_Seek(rd, offset, whence) /\ UNCHANGED <<chain, wr, ct, cd, bo, cl, bw, fs, pk, lm, sz, vf, nt>>
WriteTo == \E nilDst \in BOOLEAN : rd' = Reader_Drain(rd, "WriteTo", nilDst) /\ UNCHANGED <<chain, wr, ct, cd, bo, cl, bw, fs, pk, lm, sz, vf, nt>>
ReadTo == \E nilDst \in BOOLEAN : rd' = Reader_Drain(rd, "ReadTo", nilDst) /\ UNCHANGED <<chain, wr, ct, cd, bo, cl, bw, fs, pk, lm, sz, vf, nt>>
Align == \E n \in 0..MaxAlign : rd' \in Reader_Align(rd, n) /\ UNCHANGED <<chain, wr, ct, cd, bo, cl, bw, fs, pk, lm, sz, vf, nt>>

NextReader ==
    \/ ReadBool \/ ReadByte \/ ReadUint8 \/ ReadInt8
    \/ ReadUint16 \/ ReadUint32 \/ ReadUint64
    \/ ReadInt16 \/ ReadInt32 \/ ReadInt64
    \/ ReadBytes \/ ReadBytesTo \/ Read
    \/ Seek \/ WriteTo \/ ReadTo \/ Align

SpecReader == InitReader /\ [][NextReader]_vars

(* The adapter and source side of a reader: what a call may consume. *)
RdSourceState(r) == <<r.src, r.bufLo, r.bufN, r.pos, r.fsOff, r.viaFS>>

BytePrims == {"ReadBool", "ReadByte", "ReadUint8", "ReadInt8"}
WidePrims == {"ReadUint16", "ReadUint32", "ReadUint64", "ReadInt16", "ReadInt32", "ReadInt64"}
PrimWidth(op) ==
    CASE op \in BytePrims -> 1
      [] op \in {"ReadUint16", "ReadInt16"} -> 2
      [] op \in {"ReadUint32", "ReadInt32"} -> 4
      [] OTHER -> 8

(* C1: Reader error latching. Once Err() is non-nil, every call of a       *)
(* primitive read, ReadBytes, ReadBytesTo, Read, Seek, WriteTo, ReadTo or  *)
(* Align (every step of the reader) consumes nothing from the source or    *)
(* the adapter, leaves Count() and the destination as they were and leaves *)
(* Err() equal to the same error.                                          *)
C1_ReaderLatching ==
    [][rd.err # Nil =>
         /\ rd'.err = rd.err
         /\ rd'.count = rd.count
         /\ rd'.dest = rd.dest
         /\ RdSourceState(rd') = RdSourceState(rd)]_vars

(* A wide primitive was called on a latched reader that still had the      *)
(* bytes it asked for in front of it.                                      *)
C1_Witness ==
    /\ rd.last.latched
    /\ rd.last.op = "ReadUint32"
    /\ rd.err # Nil
    /\ RdRemaining(rd) >= 4

(* C3: End-of-stream distinction. A primitive read of width w called on an *)
(* unlatched reader latches io.EOF (IsEOF() true) when no byte was left,   *)
(* and io.ErrUnexpectedEOF (IsEOF() false) when 1..w-1 bytes were left.    *)
C3_EosDistinction ==
    [][(rd.err = Nil /\ rd'.last.op \in BytePrims \cup WidePrims) =>
         LET w == PrimWidth(rd'.last.op)
             avail == RdRemaining(rd)
         IN  /\ avail = 0 => rd'.err = EOF
             /\ avail \in 1..(w - 1) => rd'.err = ErrUnexpectedEOF]_vars

(* C10: Forward-seek monotonicity. On an unlatched reader over a           *)
(* non-seekable source (bytes.Buffer, a caller's bufio.Reader, an          *)
(* arbitrary io.Reader under the default adapter) at position cur, every   *)
(* Seek(k, SeekStart) with k < cur fails with ErrUnsupportedNegativeSeek   *)
(* and consumes no byte of the source.                                     *)
C10_ForwardSeekMonotonic ==
    (rd.kind \in NonSeekableKinds /\ rd.err = Nil) =>
        \A k \in 0..(rd.count - 1) :
            \A r2 \in Reader_Seek(rd, k, SeekStart) :
                /\ ErrorsIs(r2.last.err, ErrUnsupportedNegativeSeek)
                /\ r2.src = rd.src

(* Scenario S3 (TestForwardOnlySeekerErrors): source length and targets. *)
S3Len == 10
S3Forward == 5
S3Back == 2

(* The first seek of S3 asked for fwd on a new reader and left r1. On r1:  *)
(* the seek back to any earlier position fails with                        *)
(* ErrUnsupportedNegativeSeek, and the Seek(0, SeekEnd) after it returns   *)
(* ErrInvalidWhence (asStated) or the error the reader holds.          *)
S3After(r1, back, asStated) ==
    /\ r1.last.err = Nil
    /\ back < r1.count =>
          \A r2 \in Reader_Seek(r1, back, SeekStart) :
              /\ ErrorsIs(r2.last.err, ErrUnsupportedNegativeSeek)
              /\ \A r3 \in Reader_Seek(r2, 0, SeekEnd) :
                    IF asStated
                    THEN ErrorsIs(r3.last.err, ErrInvalidWhence)
                    ELSE /\ r3.last.err = r2.err
                         /\ r3.count = r2.count /\ r3.src = r2.src

(* S3 with the numbers of the test, on each non-seekable kind. *)
S3Literal(asStated) ==
    \A kind \in NonSeekableKinds :
        \A r1 \in Reader_Seek(NewReaderOver(kind, S3Len), S3Forward, SeekStart) :
            S3After(r1, S3Back, asStated)

(* rd is what a first Seek(fwd, SeekStart), fwd short of the source's end, *)
(* left of a new reader over a non-seekable source.                        *)
S3FirstSeekDone(fwd) ==
    /\ rd.kind \in NonSeekableKinds
    /\ fwd < rd.L
    /\ rd \in Reader_Seek(NewReaderOver(rd.kind, rd.L), fwd, SeekStart)

(* C11 as stated: S3 as one sequence on a single typed Reader over a       *)
(* non-seekable source: Seek(5, SeekStart) succeeds, then Seek(2,          *)
(* SeekStart) returns ErrUnsupportedNegativeSeek, then Seek(0, SeekEnd)    *)
(* returns ErrInvalidWhence.                                               *)
C11_ScenarioS3 ==
    /\ S3Literal(TRUE)
    /\ \A fwd \in 1..MaxSeekOff :
          S3FirstSeekDone(fwd) => \A back \in 0..(fwd - 1) : S3After(rd, back, TRUE)

(* C11 amended: the first two seeks are as stated; the reader then holds   *)
(* ErrUnsupportedNegativeSeek, so Seek(0, SeekEnd) on it returns that      *)
(* error and moves nothing; on a new reader over such a source             *)
(* Seek(0, SeekEnd) returns ErrInvalidWhence.                              *)
C11_ScenarioS3Latched ==
    /\ S3Literal(FALSE)
    /\ \A kind \in NonSeekableKinds :
          \A r3 \in Reader_Seek(NewReaderOver(kind, S3Len), 0, SeekEnd) :
              ErrorsIs(r3.last.err, ErrInvalidWhence)
    /\ \A fwd \in 1..MaxSeekOff :
          S3FirstSeekDone(fwd) => \A back \in 0..(fwd - 1) : S3After(rd, back, FALSE)
    /\ (rd.kind \in NonSeekableKinds /\ rd.last.op = "none") =>
          \A r3 \in Reader_Seek(rd, 0, SeekEnd) : ErrorsIs(r3.last.err, ErrInvalidWhence)

(* The third seek of S3 has acted on the reader over a bytes.Buffer that   *)
(* the second one latched.                                                 *)
C11_Witness ==
    /\ rd.kind = "bytesBuffer" /\ rd.L = MaxRdLen
    /\ rd.last.op = "Seek" /\ rd.last.latched
    /\ rd.err = ErrUnsupportedNegativeSeek
    /\ rd.count = MaxRdLen - 1 /\ rd.src = rd.count

SeekableKinds == RdKinds \ NonSeekableKinds

(* The absolute target of Seek(offset, whence) on r. *)
SeekTarget(r, offset, whence) ==
    CASE whence = SeekStart -> offset
      [] whence = SeekCurrent -> r.count + offset
      [] OTHER -> r.L + offset

(* Seek(offset, whence) on r, when it returns no error for a target inside *)
(* the source, leaves Count() at the target and the byte the Reader        *)
(* delivers next is the source byte at the target.                         *)
SeekPositions(r, offset, whence) ==
    LET T == SeekTarget(r, offset, whence)
    IN  \A r2 \in Reader_Seek(r, offset, whence) :
            (r2.last.err = Nil /\ T \in 0..(r.L - 1)) =>
                /\ r2.count = T
                /\ \A o \in Reader_Read(r2, 1) : o.n = 1 => o.bytes = <<T>>

SeekInputs == ((0 - MaxSeekOff)..MaxSeekOff) \X Whences

(* C12: Typed Reader seek positions the stream. After any sequence of      *)
(* reads, a Seek that returns no error for an absolute target T inside the *)
(* source leaves Count() = T and the next byte delivered is the source     *)
(* byte at index T: for seekable sources, and for forward targets on a     *)
(* non-seekable source behind the default buffered adapter, inside or      *)
(* outside the buffered window.                                            *)
C12_SeekPositions ==
    rd.err = Nil =>
        \A in \in SeekInputs :
            (\/ rd.kind \in SeekableKinds
             \/ rd.kind = "bufioFwd" /\ SeekTarget(rd, in[1], in[2]) >= rd.count)
            => SeekPositions(rd, in[1], in[2])

(* C12 for the seekable sources alone (BytesReader, bytes.Reader, an       *)
(* io.ReadSeeker under the default adapter).                               *)
C12_SeekPositionsSeekable ==
    (rd.err = Nil /\ rd.kind \in SeekableKinds) =>
        \A in \in SeekInputs : SeekPositions(rd, in[1], in[2])

(* The absolute offset in the source of the byte the Reader delivers next: *)
(* the first byte held by the bufio.Reader, or the next byte of the source. *)
NextOffset(r) == IF r.kind \in BufioKinds /\ r.bufN > 0 THEN r.bufLo ELSE r.src

(* The call that led to r2 from r is a typed read, Read, WriteTo, ReadTo,  *)
(* Align or a Seek that returned no error and did not move backward.       *)
ReadOrForwardSeek(r, r2) ==
    r2.last.op = "Seek" => (r2.last.err = Nil /\ r2.last.n >= r.count)

(* C24: Reader count invariant. For a typed Reader created over a source   *)
(* at its start, Count() is the absolute offset of the next byte the       *)
(* Reader will deliver (the bytes delivered plus the bytes discarded), and *)
(* every typed read, Read, WriteTo, ReadTo, Align and successful forward   *)
(* seek keeps it so.                                                       *)
C24_ReaderCount ==
    [][(rd.count = NextOffset(rd) /\ ReadOrForwardSeek(rd, rd'))
          => rd'.count = NextOffset(rd')]_vars

(* The step is a Seek that failed and took no byte from the source. *)
SeekFailedInPlace(r, r2) ==
    /\ r2.last.op = "Seek" /\ r2.last.err # Nil
    /\ r2.src = r.src /\ r2.bufLo = r.bufLo /\ r2.bufN = r.bufN

(* C36: a failed seek keeps the cursor. When Seek on a typed Reader fails  *)
(* without consuming any source byte (negative absolute position on a      *)
(* byte-slice source, backward seek on a forward-only source, unsupported  *)
(* whence), Count() after the call equals Count() before the call and the  *)
(* position returned equals that unchanged count.                          *)
C36_FailedSeekKeepsCursor ==
    [][SeekFailedInPlace(rd, rd') => (rd'.count = rd.count /\ rd'.last.n = rd.count)]_vars

(* Align(n) on r, when the source still holds the bytes up to the next     *)
(* multiple of n and no error is latched afterwards, leaves Count() at the *)
(* least multiple of n that is >= its previous value.                      *)
AlignsTo(r, n) ==
    \A r2 \in Reader_Align(r, n) :
        (RdRemaining(r) >= Roundup(r.count, n) - r.count /\ r2.err = Nil) =>
            /\ r2.count = Roundup(r.count, n)
            /\ r2.count % n = 0 /\ r2.count >= r.count /\ r2.count - r.count < n

PowersOfTwo == {n \in 2..MaxAlign : AndNot(n, n - 1) = n}

(* C25: Reader.Align. For n > 1 a power of two, Align(n) on a healthy      *)
(* typed Reader whose source still holds enough bytes, when no error is    *)
(* latched afterwards, leaves Count() at the least multiple of n that is   *)
(* >= its previous value, for every source, including one whose Read may   *)
(* return fewer bytes than requested.                                      *)
C25_ReaderAlign ==
    rd.err = Nil => \A n \in PowersOfTwo : AlignsTo(rd, n)

(***************************************************************************)
(*                            TYPED WRITER                                 *)
(***************************************************************************)
MaxCap == 2
MaxWSize == 2
MaxStored == 2
MaxWrite == 2

ErrShortWrite == <<"short write">>
ErrSinkFull == <<"sink: write failed">>
ErrSource == <<"source: read failed">>

(* What NewWriterSize puts under a typed Writer:                           *)
(*   bufio        bufioWriterAdapter: a bufio.Writer of size bytes in      *)
(*                front of a sink that takes cap bytes and then fails      *)
(*   BytesWriter  the library's fixed slice of cap bytes, no buffer        *)
(*   bytesBuffer  bytesBufferWriterAdapter over a bytes.Buffer, no buffer  *)
WrKinds == {"bufio", "BytesWriter", "bytesBuffer"}

NoWrCall == [who |-> "none", op |-> "none", latched |-> FALSE]

(* &Writer{w: adapter, depth: depth}, "outer"; t["inner"] is the Writer    *)
(* NewWriterSize builds over outer to share its adapter, once hasInner.    *)
(*  sink   the bytes delivered to the sink (the slice B[:N], the Buffer)   *)
(*  buf, berr   the bufio.Writer's pending bytes and its sticky error      *)
(*  sinkRF the sink implements io.ReaderFrom                               *)
NewWriterOver(kind, cap, size, depth, sinkRF) ==
    [kind |-> kind, sink |-> <<>>, cap |-> cap, sinkRF |-> sinkRF,
     size |-> size, buf |-> <<>>, berr |-> Nil,
     t |-> [who \in {"outer", "inner"} |-> [count |-> 0, err |-> Nil,
                                           depth |-> IF who = "outer" THEN depth ELSE 0]],
     hasInner |-> FALSE, last |-> NoWrCall]

WOut(w, n, err) == [w |-> w, n |-> n, err |-> err]

Take(p, n) == SubSeq(p, 1, n)
Drop(p, n) == SubSeq(p, n + 1, Len(p))

(* b.wr.Write(p) of the sink behind the bufio.Writer. *)
SinkWrite(w, p) ==
    LET n == Min(Len(p), Max(w.cap - Len(w.sink), 0))
    IN  WOut([w EXCEPT !.sink = w.sink \o Take(p, n)], n,
             IF n < Len(p) THEN ErrSinkFull ELSE Nil)

(* bufio.Writer.Available, Flush, Write, WriteByte *)
BufioAvailable(w) == w.size - Len(w.buf)

(* Flush after n, err := b.wr.Write(b.buf[0:b.n]) gave o. *)
BufioFlushed(w, o) ==
    LET err == IF o.n < Len(w.buf) /\ o.err = Nil THEN ErrShortWrite ELSE o.err
    IN  IF err # Nil
        THEN WOut([o.w EXCEPT !.buf = Drop(w.buf, o.n), !.berr = err], 0, err)
        ELSE WOut([o.w EXCEPT !.buf = <<>>], 0, Nil)

BufioFlush(w) ==
    IF w.berr # Nil THEN WOut(w, 0, w.berr)
    ELSE IF Len(w.buf) = 0 THEN WOut(w, 0, Nil)
    ELSE BufioFlushed(w, SinkWrite(w, w.buf))

(* n, b.err = b.wr.Write(p): the large write on an empty buffer. *)
BufioDirect(o) == WOut([o.w EXCEPT !.berr = o.err], o.n, o.err)

(* n = copy(b.buf[b.n:], p); b.n += n; b.Flush() *)
BufioFill(w, p, n) == WOut(BufioFlush([w EXCEPT !.buf = w.buf \o Take(p, n)]).w, n, Nil)

RECURSIVE BufioWriteLoop(_, _, _)
BufioWriteNext(p, nn, o) == BufioWriteLoop(o.w, Drop(p, o.n), nn + o.n)
BufioWriteLoop(w, p, nn) ==
    IF Len(p) > BufioAvailable(w) /\ w.berr = Nil
    THEN BufioWriteNext(p, nn, IF Len(w.buf) = 0
                                THEN BufioDirect(SinkWrite(w, p))
                                ELSE BufioFill(w, p, BufioAvailable(w)))
    ELSE IF w.berr # Nil
    THEN WOut(w, nn, w.berr)
    ELSE WOut([w EXCEPT !.buf = w.buf \o p], nn + Len(p), Nil)

BufioWrite(w, p) == BufioWriteLoop(w, p, 0)

(* WriteByte after the Flush a full buffer asks for gave f. *)
BufioPutByte(f, c) ==
    IF f.err # Nil
    THEN WOut(f.w, 0, f.w.berr)
    ELSE WOut([f.w EXCEPT !.buf = f.w.buf \o <<c>>], 1, Nil)

BufioWriteByte(w, c) ==
    IF w.berr # Nil THEN WOut(w, 0, w.berr)
    ELSE BufioPutByte(IF BufioAvailable(w) <= 0 THEN BufioFlush(w) ELSE WOut(w, 0, Nil), c)

(* bufio.Writer.ReadFrom(r), r giving the bytes p and then io.EOF (rerr =  *)
(* Nil) or the error rerr: the sink's own ReadFrom when nothing is         *)
(* pending, else fill and flush.                                           *)
RECURSIVE BufioReadFromLoop(_, _, _, _)
(* readerFrom.ReadFrom(r) of the sink gave o. *)
BufioHandedOver(o, n, rerr) ==
    IF o.err # Nil
    THEN WOut([o.w EXCEPT !.berr = o.err], n + o.n, o.err)
    ELSE WOut([o.w EXCEPT !.berr = rerr], n + o.n, rerr)

(* One turn of the loop after the Flush a full buffer asks for left w. *)
BufioReadFromTurn(w, p, n, rerr, m) ==
    IF w.sinkRF /\ Len(w.buf) = 0
    THEN BufioHandedOver(SinkWrite(w, p), n, rerr)
    ELSE IF Len(p) = 0
    THEN IF rerr # Nil THEN WOut(w, n, rerr)
         ELSE IF BufioAvailable(w) = 0
         THEN WOut(BufioFlush(w).w, n, BufioFlush(w).err)
         ELSE WOut(w, n, Nil)
    ELSE BufioReadFromLoop([w EXCEPT !.buf = w.buf \o Take(p, m)], Drop(p, m), n + m, rerr)

BufioReadFromFlushed(f, p, n, rerr) ==
    IF f.err # Nil
    THEN WOut(f.w, n, f.err)
    ELSE BufioReadFromTurn(f.w, p, n, rerr, Min(Len(p), BufioAvailable(f.w)))

BufioReadFromLoop(w, p, n, rerr) ==
    BufioReadFromFlushed(IF BufioAvailable(w) = 0 THEN BufioFlush(w) ELSE WOut(w, 0, Nil),
                         p, n, rerr)

BufioReadFrom(w, p, rerr) ==
    IF w.berr # Nil THEN WOut(w, 0, w.berr) ELSE BufioReadFromLoop(w, p, 0, rerr)

(* BytesWriter.Write / WriteString / WriteByte / ReadFrom *)
BytesWriter_Write(w, p) ==
    LET n == Min(Len(p), w.cap - Len(w.sink))
    IN  IF Len(w.sink) >= w.cap THEN WOut(w, 0, ErrShortWrite)
        ELSE WOut([w EXCEPT !.sink = w.sink \o Take(p, n)], n,
                  IF n < Len(p) THEN ErrShortWrite ELSE Nil)

BytesWriter_ReadFrom(w, p, rerr) ==
    LET n == Min(Len(p), w.cap - Len(w.sink))
    IN  IF Len(w.sink) >= w.cap THEN WOut(w, 0, ErrShortWrite)
        ELSE WOut([w EXCEPT !.sink = w.sink \o Take(p, n)], n,
                  IF Len(p) = 0 THEN rerr ELSE Nil)

(* bytes.Buffer.Write / WriteString / WriteByte / ReadFrom: grows, no error *)
BytesBuffer_Write(w, p) == WOut([w EXCEPT !.sink = w.sink \o p], Len(p), Nil)

(* w.w.Write(buf), w.w.WriteString(str) *)
AdWrite(w, p) ==
    CASE w.kind = "bufio" -> BufioWrite(w, p)
      [] w.kind = "BytesWriter" -> BytesWriter_Write(w, p)
      [] OTHER -> BytesBuffer_Write(w, p)

(* w.w.WriteByte(c) *)
AdWriteByte(w, c) ==
    CASE w.kind = "bufio" -> BufioWriteByte(w, c)
      [] w.kind = "BytesWriter" -> BytesWriter_Write(w, <<c>>)
      [] OTHER -> BytesBuffer_Write(w, <<c>>)

(* bytes.Buffer.ReadFrom: everything r gives, then r's error if not io.EOF *)
BytesBuffer_ReadFrom(w, p, rerr) == WOut([w EXCEPT !.sink = w.sink \o p], Len(p), rerr)

(* w.w.ReadFrom(r) *)
AdReadFrom(w, p, rerr) ==
    CASE w.kind = "bufio" -> BufioReadFrom(w, p, rerr)
      [] w.kind = "BytesWriter" -> BytesWriter_ReadFrom(w, p, rerr)
      [] OTHER -> BytesBuffer_ReadFrom(w, p, rerr)

(* w.w.Flush() *)
AdFlush(w) == IF w.kind = "bufio" THEN BufioFlush(w) ELSE WOut(w, 0, Nil)

(* w.w.Size() *)
AdSize(w) ==
    CASE w.kind = "bufio" -> w.size
      [] w.kind = "BytesWriter" -> w.cap
      [] OTHER -> 0

(* if w.err != nil { return }: the guard that opens every Writer method. *)
WLatched_Never(w, who) == FALSE
WLatched(w, who) == w.t[who].err # Nil

(* Writer.setError records the first non-nil error. *)
WSetError(w, who, err) ==
    IF w.t[who].err = Nil /\ err # Nil THEN [w EXCEPT !.t[who].err = err] ELSE w

(* w.count += n; w.setError(err); return n, w.err *)
Counted(w, who, n, err) == WOut(w, n, w.t[who].err)
WriterDid_Uncounted(o, who, err) == Counted(WSetError(o.w, who, err), who, o.n, err)
WriterDid(o, who, err) ==
    Counted(WSetError([o.w EXCEPT !.t[who].count = @ + o.n], who, err), who, o.n, err)
WriterDone(o, who) == WriterDid(o, who, o.err)

(* Writer.Write(buf); isNil: buf == nil. *)
Writer_Write(w, who, isNil, p) ==
    IF isNil \/ WLatched(w, who)
    THEN WOut(w, 0, w.t[who].err)
    ELSE WriterDone(AdWrite(w, p), who)

(* Writer.ReadFrom(r); isNil: r == nil; r gives p, then io.EOF or rerr. *)
Writer_ReadFrom(w, who, isNil, p, rerr) ==
    IF isNil \/ WLatched(w, who)
    THEN WOut(w, 0, w.t[who].err)
    ELSE WriterDone(AdReadFrom(w, p, rerr), who)

(* if w.depth > 0 || w.err != nil { return w.err } *)
FlushIsNoOp_DepthIgnored(w, who) == w.t[who].err # Nil
FlushIsNoOp(w, who) == w.t[who].depth > 0 \/ w.t[who].err # Nil

(* err := w.w.Flush(); w.setError(err); return err *)
WriterFlushed(o, who) == WOut(WSetError(o.w, who, o.err), 0, o.err)

(* Writer.Flush *)
Writer_Flush(w, who) ==
    IF FlushIsNoOp(w, who)
    THEN WOut(w, 0, w.t[who].err)
    ELSE WriterFlushed(AdFlush(w), who)

(* Writer.Result: w.Flush(); return w.count, w.err *)
WriterResult(w, who) == WOut(w, w.t[who].count, w.t[who].err)
Writer_Result(w, who) == WriterResult(Writer_Flush(w, who).w, who)

WriterWroteFrom(o, who, wterr) == WriterDid(o, who, IF o.err # Nil THEN o.err ELSE wterr)

(* Writer.WriteFrom(wt); wt.WriteTo(w.w) writes p with one w.w.Write and   *)
(* returns that call's error, or its own error wterr.                      *)
Writer_WriteFrom(w, who, isNil, p, wterr) ==
    IF isNil \/ WLatched(w, who)
    THEN WOut(w, 0, w.t[who].err)
    ELSE WriterWroteFrom(AdWrite(w, p), who, wterr)

(* Writer.WriteBytes *)
Writer_WriteBytes(w, who, isNil, p) ==
    IF isNil \/ WLatched(w, who)
    THEN WOut(w, 0, w.t[who].err)
    ELSE Writer_Write(w, who, FALSE, p)

Zeros(n) == [i \in 1..n |-> 0]

(* _, err := io.CopyN(w, Zero, n); w.setError(err) *)
WriterCopiedN(o, who, n) ==
    WOut(WSetError(o.w, who, IF o.n < n /\ o.err = Nil THEN EOF ELSE o.err), o.n, o.err)

(* Writer.WriteZeros(n): w.Write(empty[:n]) up to BUFFER_SIZE, else        *)
(* io.CopyN(w, Zero, n), which goes through w.ReadFrom.                    *)
Writer_WriteZeros(w, who, n) ==
    IF WLatched(w, who) \/ n <= 0
    THEN WOut(w, 0, w.t[who].err)
    ELSE IF n <= BUFFER_SIZE
    THEN Writer_Write(w, who, FALSE, Zeros(n))
    ELSE WriterCopiedN(Writer_ReadFrom(w, who, FALSE, Zeros(n), Nil), who, n)

(* The padding Align(n) asks WriteZeros for. *)
AlignPad(count, n) == IF n > 1 THEN Roundup(count, n) - count ELSE 0

(* Writer.Align *)
Writer_Align(w, who, n) ==
    IF n > 1
    THEN Writer_WriteZeros(w, who, AlignPad(w.t[who].count, n))
    ELSE WOut(w, 0, w.t[who].err)

(* if err == nil { w.count++ } else { w.err = err } *)
WriterPutByte(o, who) ==
    IF o.err = Nil
    THEN WOut([o.w EXCEPT !.t[who].count = @ + 1], 1, Nil)
    ELSE WOut([o.w EXCEPT !.t[who].err = o.err], 0, o.err)

(* WriteBool, WriteByte, WriteUint8, WriteInt8: w.w.WriteByte(v), then     *)
(* count++ or w.err = err.                                                 *)
Writer_WriteByteLike(w, who, c) ==
    IF WLatched(w, who)
    THEN WOut(w, 0, w.t[who].err)
    ELSE WriterPutByte(AdWriteByte(w, c), who)

(* WriteUint16/32/64, WriteInt16/32/64: w.order.PutUintW(buf, v), then     *)
(* w.Write(buf[:]).                                                        *)
Writer_WriteWide(w, who, p) ==
    IF WLatched(w, who)
    THEN WOut(w, 0, w.t[who].err)
    ELSE Writer_Write(w, who, FALSE, p)

(* NewWriterSize(outer, size) when outer.w.Size() >= size:                 *)
(* &Writer{w: outer.w, depth: outer.depth + 1}                             *)
NewWriterSharing(w) ==
    [w EXCEPT !.hasInner = TRUE,
              !.t["inner"] = [count |-> 0, err |-> Nil, depth |-> w.t["outer"].depth + 1],
              !.last = [NoWrCall EXCEPT !.who = "inner", !.op = "new"]]

(* The last call: whose method, whether it was one of the writing methods *)
(* ("write"), Flush or Result ("flush") or NewWriterSize ("new"), and      *)
(* whether that writer was already latched when it was called.             *)
FlushOps == {"Flush", "Result"}
WCall(who, op, latched) ==
    [who |-> who, op |-> IF op \in FlushOps THEN "flush" ELSE "write", latched |-> latched]

(* A caller's argument of k bytes: each byte carries the place it takes in *)
(* the stream if every byte before it was accepted.                        *)
Stored(w) == Len(w.sink) + Len(w.buf)
Data(w, k) == [i \in 1..k |-> Stored(w) + i]

(* The state after the call o of method op. *)
Called(w, o, who, op) == [o.w EXCEPT !.last = WCall(who, op, WLatched(w, who))]

SrcErrs == {Nil, ErrSource}
Holders(w) == IF w.hasInner THEN {"outer", "inner"} ELSE {"outer"}
(* A call that adds bytes is made while at most MaxStored bytes are stored. *)
Room(w, k) == k = 0 \/ Stored(w) <= MaxStored

InitWriter ==
    /\ wr \in {NewWriterOver("bufio", cap, size, 0, rf) :
                 cap \in 0..MaxCap, size \in 1..MaxWSize, rf \in BOOLEAN}
          \cup {NewWriterOver("BytesWriter", cap, 0, 0, FALSE) : cap \in 0..MaxCap}
          \cup {NewWriterOver("bytesBuffer", 0, 0, 0, FALSE)}
    /\ chain = IdleChain
    /\ rd = IdleRd
    /\ ct = IdleCt
    /\ cd = IdleCd
    /\ bo = IdleBo /\ cl = IdleCl /\ bw = IdleBw /\ fs = IdleFs /\ pk = IdlePk
    /\ lm = IdleLm /\ sz = IdleSz /\ vf = IdleVf /\ nt = IdleNt

Write ==
    \E who \in Holders(wr), isNil \in BOOLEAN, k \in 0..MaxWrite :
        /\ Room(wr, k)
        /\ wr' = Called(wr, Writer_Write(wr, who, isNil, Data(wr, k)), who, "Write")
        /\ UNCHANGED <<chain, rd, ct, cd, bo, cl, bw, fs, pk, lm, sz, vf, nt>>

WriteString ==
    \E who \in Holders(wr), k \in 0..MaxWrite :
        /\ Room(wr, k)
        /\ wr' = Called(wr, Writer_Write(wr, who, k = 0, Data(wr, k)), who, "WriteString")
        /\ UNCHANGED <<chain, rd, ct, cd, bo, cl, bw, fs, pk, lm, sz, vf, nt>>

WriteBytes ==
    \E who \in Holders(wr), isNil \in BOOLEAN, k \in 0..MaxWrite :
        /\ Room(wr, k)
        /\ wr' = Called(wr, Writer_WriteBytes(wr, who, isNil, Data(wr, k)), who, "WriteBytes")
        /\ UNCHANGED <<chain, rd, ct, cd, bo, cl, bw, fs, pk, lm, sz, vf, nt>>

WriteZeros ==
    \E who \in Holders(wr), n \in (0 - 1)..MaxWrite :
        /\ Room(wr, Max(n, 0))
        /\ wr' = Called(wr, Writer_WriteZeros(wr, who, n), who, "WriteZeros")
        /\ UNCHANGED <<chain, rd, ct, cd, bo, cl, bw, fs, pk, lm, sz, vf, nt>>

WriterAlign ==
    \E who \in Holders(wr), n \in 0..MaxAlign :
        /\ Room(wr, Max(AlignPad(wr.t[who].count, n), 0))
        /\ wr' = Called(wr, Writer_Align(wr, who, n), who, "Align")
        /\ UNCHANGED <<chain, rd, ct, cd, bo, cl, bw, fs, pk, lm, sz, vf, nt>>

WriteFrom ==
    \E who \in Holders(wr), isNil \in BOOLEAN, k \in 0..MaxWrite, wterr \in SrcErrs :
        /\ Room(wr, k)
        /\ wr' = Called(wr, Writer_WriteFrom(wr, who, isNil, Data(wr, k), wterr), who, "WriteFrom")
        /\ UNCHANGED <<chain, rd, ct, cd, bo, cl, bw, fs, pk, lm, sz, vf, nt>>

ReadFrom ==
    \E who \in Holders(wr), isNil \in BOOLEAN, k \in 0..MaxWrite, rerr \in SrcErrs :
        /\ Room(wr, k)
        /\ wr' = Called(wr, Writer_ReadFrom(wr, who, isNil, Data(wr, k), rerr), who, "ReadFrom")
        /\ UNCHANGED <<chain, rd, ct, cd, bo, cl, bw, fs, pk, lm, sz, vf, nt>>

WriteBool ==
    \E who \in Holders(wr), v \in BOOLEAN :
        /\ Room(wr, 1)
        /\ wr' = Called(wr, Writer_WriteByteLike(wr, who, IF v THEN 1 ELSE 0), who, "WriteBool")
        /\ UNCHANGED <<chain, rd, ct, cd, bo, cl, bw, fs, pk, lm, sz, vf, nt>>

WriteByte ==
    \E who \in Holders(wr) :
        /\ Room(wr, 1)
        /\ wr' = Called(wr, Writer_WriteByteLike(wr, who, Stored(wr) + 1), who, "WriteByte")
        /\ UNCHANGED <<chain, rd, ct, cd, bo, cl, bw, fs, pk, lm, sz, vf, nt>>

WriteUint8 ==
    \E who \in Holders(wr) :
        /\ Room(wr, 1)
        /\ wr' = Called(wr, Writer_WriteByteLike(wr, who, Stored(wr) + 1), who, "WriteUint8")
        /\ UNCHANGED <<chain, rd, ct, cd, bo, cl, bw, fs, pk, lm, sz, vf, nt>>

WriteInt8 ==
    \E who \in Holders(wr) :
        /\ Room(wr, 1)
        /\ wr' = Called(wr, Writer_WriteByteLike(wr, who, Stored(wr) + 1), who, "WriteInt8")
        /\ UNCHANGED <<chain, rd, ct, cd, bo, cl, bw, fs, pk, lm, sz, vf, nt>>

WriteUint16 ==
    \E who \in Holders(wr) :
        /\ Room(wr, 2)
        /\ wr' = Called(wr, Writer_WriteWide(wr, who, Data(wr, 2)), who, "WriteUint16")
        /\ UNCHANGED <<chain, rd, ct, cd, bo, cl, bw, fs, pk, lm, sz, vf, nt>>

WriteUint32 ==
    \E who \in Holders(wr) :
        /\ Room(wr, 4)
        /\ wr' = Called(wr, Writer_WriteWide(wr, who, Data(wr, 4)), who, "WriteUint32")
        /\ UNCHANGED <<chain, rd, ct, cd, bo, cl, bw, fs, pk, lm, sz, vf, nt>>

WriteUint64 ==
    \E who \in Holders(wr) :
        /\ Room(wr, 8)
        /\ wr' = Called(wr, Writer_WriteWide(wr, who, Data(wr, 8)), who, "WriteUint64")
        /\ UNCHANGED <<chain, rd, ct, cd, bo, cl, bw, fs, pk, lm, sz, vf, nt>>

WriteInt16 ==
    \E who \in Holders(wr) :
        /\ Room(wr, 2)
        /\ wr' = Called(wr, Writer_WriteWide(wr, who, Data(wr, 2)), who, "WriteInt16")
        /\ UNCHANGED <<chain, rd, ct, cd, bo, cl, bw, fs, pk, lm, sz, vf, nt>>

WriteInt32 ==
    \E who \in Holders(wr) :
        /\ Room(wr, 4)
        /\ wr' = Called(wr, Writer_WriteWide(wr, who, Data(wr, 4)), who, "WriteInt32")
        /\ UNCHANGED <<chain, rd, ct, cd, bo, cl, bw, fs, pk, lm, sz, vf, nt>>

WriteInt64 ==
    \E who \in Holders(wr) :
        /\ Room(wr, 8)
        /\ wr' = Called(wr, Writer_WriteWide(wr, who, Data(wr, 8)), who, "WriteInt64")
        /\ UNCHANGED <<chain, rd, ct, cd, bo, cl, bw, fs, pk, lm, sz, vf, nt>>

Flush ==
    \E who \in Holders(wr) :
        /\ TRUE
        /\ wr' = Called(wr, Writer_Flush(wr, who), who, "Flush")
        /\ UNCHANGED <<chain, rd, ct, cd, bo, cl, bw, fs, pk, lm, sz, vf, nt>>

Result ==
    \E who \in Holders(wr) :
        /\ TRUE
        /\ wr' = Called(wr, Writer_Result(wr, who), who, "Result")
        /\ UNCHANGED <<chain, rd, ct, cd, bo, cl, bw, fs, pk, lm, sz, vf, nt>>

(* NewWriterSize(outer, size) with size <= outer.Size(): inner shares      *)
(* outer's adapter.                                                        *)
NestWriter ==
    \E size \in 0..MaxWSize :
        /\ ~wr.hasInner
        /\ AdSize(wr) >= size
        /\ wr' = NewWriterSharing(wr)
        /\ UNCHANGED <<chain, rd, ct, cd, bo, cl, bw, fs, pk, lm, sz, vf, nt>>

NextWriter ==
    \/ Write
    \/ WriteString
    \/ WriteBytes
    \/ WriteZeros
    \/ WriterAlign
    \/ WriteFrom
    \/ ReadFrom
    \/ WriteBool
    \/ WriteByte
    \/ WriteUint8
    \/ WriteInt8
    \/ WriteUint16
    \/ WriteUint32
    \/ WriteUint64
    \/ WriteInt16
    \/ WriteInt32
    \/ WriteInt64
    \/ Flush
    \/ Result
    \/ NestWriter

SpecWriter == InitWriter /\ [][NextWriter]_vars

(* C2: Writer error latching. Once a typed Writer's Err() is non-nil,      *)
(* every call on it of Write, WriteString, WriteBytes, WriteZeros, Align,  *)
(* WriteFrom, ReadFrom, a primitive Write*, Flush or Result delivers no    *)
(* byte to the sink or the buffer, leaves that writer's Count() as it was  *)
(* and leaves its Err() equal to the first error.                          *)
C2_WriterLatching ==
    [][\A who \in {"outer", "inner"} :
         (wr.t[who].err # Nil /\ wr'.last.who = who /\ wr'.last.op \in {"write", "flush"}) =>
             /\ wr'.sink = wr.sink
             /\ wr'.buf = wr.buf
             /\ wr'.t[who].count = wr.t[who].count
             /\ wr'.t[who].err = wr.t[who].err]_vars

(* A writing method was called on a latched writer whose buffer had room   *)
(* for more bytes.                                                         *)
C2_Witness ==
    /\ wr.last.latched
    /\ wr.last.op = "write"
    /\ wr.t[wr.last.who].err = ErrSource
    /\ wr.kind = "bufio"
    /\ wr.berr = Nil
    /\ BufioAvailable(wr) >= 1

(* inner was built over outer, a Writer buffering in front of a sink. *)
Nested(w) == w.hasInner /\ w.kind = "bufio"

Appended(o, p) ==
    o.w.t["outer"].err = Nil =>
        /\ o.w.sink \o o.w.buf = wr.sink \o wr.buf \o p
        /\ o.w.t["outer"].count = wr.t["outer"].count + Len(p)

(* The least multiple of n that is >= c. *)
LeastMultiple(c, n) == ((c + n - 1) \div n) * n

(* Align(n) on the healthy writer w that latches no error appends only     *)
(* zero bytes, fewer than n, and leaves Count() at the least multiple of n *)
(* that is >= its previous value.                                          *)
PadsTo(w, n) ==
    LET o == Writer_Align(w, "outer", n)
        k == o.w.t["outer"].count - w.t["outer"].count
    IN  o.w.t["outer"].err = Nil =>
            /\ k \in 0..(n - 1)
            /\ o.w.sink \o o.w.buf = w.sink \o w.buf \o Zeros(k)
            /\ o.w.t["outer"].count = LeastMultiple(w.t["outer"].count, n)

(* C26: Writer.Align. For every n > 1, Align(n) on a healthy typed Writer  *)
(* with enough sink capacity writes only zero bytes, fewer than n of them, *)
(* and leaves Count() equal to the least multiple of n that is >= its      *)
(* previous value.                                                         *)
C26_WriterAlign ==
    (~wr.hasInner /\ wr.t["outer"].err = Nil) =>
        \A n \in 2..MaxAlign : PadsTo(wr, n)

MaxCtorSize == 17

ErrNilIO == <<"codec: NewReader/NewWriter called with a nil io.Reader/io.Writer">>
ErrSizeTooSmall == <<"codec: NewReaderSize with a size smaller than 16 conflict with bufio">>
ErrAlreadyBuffered == <<"codec: reader or writer is already buffered">>

(* The dynamic type of the io.Reader given to NewReaderSize, of the        *)
(* io.Writer given to NewWriterSize ("other": none of the switch cases).   *)
ReaderArgs == {"nil", "*Reader", "*bufio.Reader", "*BytesReader", "*bytes.Reader", "*bytes.Buffer", "other"}
WriterArgs == {"nil", "*Writer", "*bufio.Writer", "*BytesWriter", "*bytes.Buffer", "other"}
BufferedArgs == {"*Reader", "*bufio.Reader", "*Writer", "*bufio.Writer"}

(* The result: err, and for a nil err the adapter of the new object:       *)
(*   "shared"  the adapter of the typed Reader/Writer given                *)
(*   "wrap"    bufioReaderAdapter/bufioWriterAdapter around the bufio      *)
(*             object given                                                *)
(*   "direct"  the in-memory object given, no buffer                       *)
(*   "new"     a new bufio.Reader/bufio.Writer of bufSize bytes reading    *)
(*             from / writing to the object given                          *)
Built(adapter, bufSize, depth) ==
    [err |-> Nil, adapter |-> adapter, bufSize |-> bufSize, depth |-> depth]
Failed(err) == [err |-> err, adapter |-> "none", bufSize |-> 0, depth |-> 0]

(* NewReaderSize(r, size); have = r.r.Size() / r.Size() of a buffered r. *)
NewReaderSize(arg, have, size) ==
    CASE arg = "nil" -> Failed(ErrNilIO)
      [] arg = "*Reader" /\ have >= size -> Built("shared", have, 0)
      [] arg = "*bufio.Reader" ->
           IF have >= size THEN Built("wrap", have, 0) ELSE Failed(ErrAlreadyBuffered)
      [] arg \in {"*BytesReader", "*bytes.Reader", "*bytes.Buffer"} -> Built("direct", 0, 0)
      [] OTHER ->
           IF size < MinBufSize THEN Failed(ErrSizeTooSmall) ELSE Built("new", size, 0)

(* NewReader(r): NewReaderSize(r, 0) *)
NewReader(arg, have) == NewReaderSize(arg, have, 0)

(* bufio.NewWriterSize: if size <= 0 { size = defaultBufSize } *)
BufioWriterSize(size) == IF size <= 0 THEN BUFFER_SIZE ELSE size

(* NewWriterSize(w, size); have = w.w.Size() / w.Size(), depth = w.depth. *)
NewWriterSize(arg, have, depth, size) ==
    CASE arg = "nil" -> Failed(ErrNilIO)
      [] arg = "*Writer" /\ have >= size -> Built("shared", have, depth + 1)
      [] arg = "*bufio.Writer" ->
           IF have >= size THEN Built("wrap", have, 1) ELSE Failed(ErrAlreadyBuffered)
      [] arg \in {"*BytesWriter", "*bytes.Buffer"} -> Built("direct", 0, 0)
      [] OTHER -> Built("new", BufioWriterSize(size), 0)

(* A call to make: which constructor, its argument and requested size. *)
CtorCall(fn, arg, have, depth, size) ==
    [kind |-> "call", fn |-> fn, arg |-> arg, have |-> have, depth |-> depth,
     size |-> size, done |-> FALSE, res |-> Failed(Nil)]

InitCtor ==
    /\ ct \in {CtorCall("NewReaderSize", arg, have, 0, size) :
                 arg \in ReaderArgs, have \in 0..MaxCtorSize, size \in 0..MaxCtorSize}
          \cup {CtorCall("NewWriterSize", arg, have, depth, size) :
                 arg \in WriterArgs, have \in 0..MaxCtorSize, depth \in {0, 1},
                 size \in 0..MaxCtorSize}
          \cup {CtorCall("NewReader", arg, have, 0, 0) :
                 arg \in ReaderArgs, have \in 0..MaxCtorSize}
    /\ ct.arg \notin BufferedArgs => ct.have = 0
    /\ ct.arg = "*bufio.Reader" => ct.have >= MinBufSize
    /\ ct.arg # "*Writer" => ct.depth = 0
    /\ chain = IdleChain
    /\ rd = IdleRd
    /\ wr = IdleWr
    /\ cd = IdleCd
    /\ bo = IdleBo /\ cl = IdleCl /\ bw = IdleBw /\ fs = IdleFs /\ pk = IdlePk
    /\ lm = IdleLm /\ sz = IdleSz /\ vf = IdleVf /\ nt = IdleNt

CallNewReaderSize ==
    /\ ct.fn = "NewReaderSize" /\ ~ct.done
    /\ ct' = [ct EXCEPT !.done = TRUE, !.res = NewReaderSize(ct.arg, ct.have, ct.size)]
    /\ UNCHANGED <<chain, rd, wr, cd, bo, cl, bw, fs, pk, lm, sz, vf, nt>>

CallNewWriterSize ==
    /\ ct.fn = "NewWriterSize" /\ ~ct.done
    /\ ct' = [ct EXCEPT !.done = TRUE,
                        !.res = NewWriterSize(ct.arg, ct.have, ct.depth, ct.size)]
    /\ UNCHANGED <<chain, rd, wr, cd, bo, cl, bw, fs, pk, lm, sz, vf, nt>>

CallNewReader ==
    /\ ct.fn = "NewReader" /\ ~ct.done
    /\ ct' = [ct EXCEPT !.done = TRUE, !.res = NewReader(ct.arg, ct.have)]
    /\ UNCHANGED <<chain, rd, wr, cd, bo, cl, bw, fs, pk, lm, sz, vf, nt>>

NextCtor == CallNewReaderSize \/ CallNewWriterSize \/ CallNewReader

SpecCtor == InitCtor /\ [][NextCtor]_vars

(* C9: No double buffering. Given an already buffered object (a typed      *)
(* Reader/Writer, a bufio.Reader/bufio.Writer) and any requested size,     *)
(* NewReaderSize/NewWriterSize either reuses the existing buffer or fails  *)
(* with ErrAlreadyBuffered; it never puts a new buffer on top of it.       *)
C9_NoDoubleBuffering ==
    (ct.done /\ ct.arg \in BufferedArgs) =>
        \/ ct.res.err = Nil /\ ct.res.adapter \in {"shared", "wrap"}
        \/ ct.res.err = ErrAlreadyBuffered

(* C33: NewReader on an arbitrary source. For every non-nil source that is *)
(* not already the library's typed Reader, a byte-slice source or an       *)
(* externally buffered reader, NewReader(r), with the default buffer size, *)
(* succeeds and returns a Reader that reads through a default buffered     *)
(* adapter.                                                                *)
C33_NewReaderDefault ==
    (ct.done /\ ct.fn = "NewReader" /\ ct.arg = "other") =>
        ct.res.err = Nil /\ ct.res.adapter = "new"

(***************************************************************************)
(*                               CODECS                                    *)
(*                                                                         *)
(* A fixed-layout record type is the sequence of the widths, in bytes, of  *)
(* its fields; a record is the sequence of its field values.  Byte slices  *)
(* are sequences of numbers below 256.                                     *)
(***************************************************************************)
MaxItems == 2
MaxSpare == 1

ErrShortBuffer == <<"short buffer">>
ErrTrailingData == <<"codec: non-zero trailing data found after decoding">>
ErrTruncatedData == <<"codec: truncated data">>

(* Order = BE *)
Order_LittleEndian == "LE"
Order == "BE"

RecordTypes == {<<>>, <<1>>, <<2>>, <<1, 2>>}

FieldValues(w) == {0, 1, 256^w - 1} \cup (IF w = 2 THEN {258} ELSE {})

Records(layout) ==
    {f \in [1..Len(layout) -> UNION {FieldValues(w) : w \in {1, 2}}] :
        \A i \in 1..Len(layout) : f[i] \in FieldValues(layout[i])}

(* order.PutUint16 and the like: the w bytes of x. *)
RECURSIVE PutUint(_, _, _)
PutUint(order, x, w) ==
    IF w = 0 THEN <<>>
    ELSE IF order = "BE"
    THEN PutUint(order, x \div 256, w - 1) \o <<x % 256>>
    ELSE <<x % 256>> \o PutUint(order, x \div 256, w - 1)

(* order.Uint16 and the like: the number the bytes bs stand for. *)
RECURSIVE Uint(_, _)
Uint(order, bs) ==
    IF bs = <<>> THEN 0
    ELSE IF order = "BE"
    THEN 256 * Uint(order, Take(bs, Len(bs) - 1)) + bs[Len(bs)]
    ELSE bs[1] + 256 * Uint(order, Tail(bs))

(* binary.Size(&c.Payload) *)
RECURSIVE BinarySize(_)
BinarySize(layout) ==
    IF layout = <<>> THEN 0 ELSE Head(layout) + BinarySize(Tail(layout))

(* The bytes binary.Write builds for a record, field after field. *)
RECURSIVE BinaryEncode(_, _, _)
BinaryEncode(order, layout, fields) ==
    IF layout = <<>> THEN <<>>
    ELSE PutUint(order, Head(fields), Head(layout))
         \o BinaryEncode(order, Tail(layout), Tail(fields))

(* The record binary.Read builds from the bytes bs, Len(bs) the size. *)
RECURSIVE BinaryDecode(_, _, _)
BinaryDecode(order, layout, bs) ==
    IF layout = <<>> THEN <<>>
    ELSE <<Uint(order, Take(bs, Head(layout)))>>
         \o BinaryDecode(order, Tail(layout), Drop(bs, Head(layout)))

(* A codec value: Fixed[Payload]{Payload} or list[T]{Items, options}. *)
FixedOf(layout, fields) ==
    [tag |-> "Fixed", layout |-> layout, fields |-> fields, Items |-> <<>>, Alignment |-> 0]
ListOf(items, alignment) ==
    [tag |-> "list", layout |-> <<>>, fields |-> <<>>, Items |-> items, Alignment |-> alignment]

(* Fixed.Size *)
Fixed_Size(c) == BinarySize(c.layout)

(* A byte slice handed to a decoder: head, then k more bytes that are zero *)
(* but for the one at nz (counted from 1 within the k; 0: none).           *)
DataOf(head, k, nz) == [head |-> head, k |-> k, nz |-> nz]
DataLen(d) == Len(d.head) + d.k
DataAt(d, i) ==
    IF i <= Len(d.head) THEN d.head[i]
    ELSE IF i - Len(d.head) = d.nz THEN 1 ELSE 0
DataSlice(d, from, n) == [i \in 1..n |-> DataAt(d, from + i)]

(* What a codec call gives back: bytes written or read, the error, the     *)
(* output bytes and the decoded value.                                     *)
CodecOut(n, err, out, dec) == [n |-> n, err |-> err, out |-> out, dec |-> dec]
NoValue == <<>>

(* The io.Writer a codec writes to, as the Writer model has it.            *)
NewBytesWriter(len) == NewWriterOver("BytesWriter", len, 0, 0, FALSE)

(* binary.Write(w, Order, &c.Payload): one w.Write of the encoding. *)
BinaryWrite(o) == o.err

(* Fixed.MarshalBinary *)
Fixed_MarshalBinary(c) ==
    LET o == BytesWriter_Write(NewBytesWriter(Fixed_Size(c)),
                               BinaryEncode(Order, c.layout, c.fields))
    IN  IF BinaryWrite(o) # Nil
        THEN CodecOut(0, o.err, <<>>, NoValue)
        ELSE CodecOut(Len(o.w.sink), Nil, o.w.sink, NoValue)

(* Fixed.MarshalTo(p), len(p) = len *)
Fixed_MarshalTo(c, len) ==
    IF len < Fixed_Size(c) THEN CodecOut(0, ErrShortBuffer, <<>>, NoValue)
    ELSE LET o == BytesWriter_Write(NewBytesWriter(len),
                                    BinaryEncode(Order, c.layout, c.fields))
         IN  IF BinaryWrite(o) # Nil
             THEN CodecOut(0, o.err, o.w.sink, NoValue)
             ELSE CodecOut(Len(o.w.sink), Nil, o.w.sink, NoValue)

(* io.ReadFull(r, bs) on a BytesReader over d at 0, len(bs) = size: the    *)
(* error binary.Read returns.                                              *)
BytesReadFullErr(d, size) ==
    IF size = 0 \/ DataLen(d) >= size THEN Nil
    ELSE IF DataLen(d) = 0 THEN EOF ELSE ErrUnexpectedEOF

CheckTrailingNotZeros_Unbounded(d, at) ==
    IF \E i \in 1..(DataLen(d) - at) : DataAt(d, at + i) # 0
    THEN Wrap("found non-zero byte", ErrTrailingData)
    ELSE Nil

(* CheckTrailingNotZeros(r), r a BytesReader over d at position at. *)
CheckTrailingNotZeros(d, at) ==
    LET avail == DataLen(d) - at
        got == Min(avail, MAX_PADDING + 1)
    IN  IF avail <= 0 THEN Nil
        ELSE IF got > MAX_PADDING
        THEN Wrap("exceeds maximum expected size", ErrTrailingData)
        ELSE IF \E i \in 1..got : DataAt(d, at + i) # 0
        THEN Wrap("found non-zero byte", ErrTrailingData)
        ELSE Nil

(* Fixed.UnmarshalBinary(data) into a Fixed of c's type. *)
Fixed_UnmarshalBinary(c, d) ==
    LET size == Fixed_Size(c)
        err == BytesReadFullErr(d, size)
    IN  IF err # Nil THEN CodecOut(0, err, <<>>, c)
        ELSE CodecOut(size, CheckTrailingNotZeros(d, size), <<>>,
                      FixedOf(c.layout, BinaryDecode(Order, c.layout, DataSlice(d, 0, size))))

(* Fixed.WriteTo(w): binary.Write gave o; (0, err) or (Size(), nil). *)
Fixed_WriteTo(c, o) == WOut(o.w, IF BinaryWrite(o) # Nil THEN 0 ELSE Fixed_Size(c), BinaryWrite(o))

(* w.Write(bs) of an io.Writer that is no typed Writer's adapter. *)
DirectWrite(w, p) ==
    CASE w.kind = "BytesWriter" -> BytesWriter_Write(w, p)
      [] w.kind = "bytesBuffer" -> BytesBuffer_Write(w, p)
      [] OTHER -> SinkWrite(w, p)

(* bufio.NewWriterSize(w, 0) takes the default size. *)
DefaultBufSize == 4096

(* NewWriter(writer): the typed Writer over a BytesWriter with len bytes,  *)
(* a bytes.Buffer, or a new bufio.Writer over a sink with room for len.    *)
NewWriter(kind, len) ==
    NewWriterOver(kind, len, IF kind = "bufio" THEN DefaultBufSize ELSE 0, 0, FALSE)

RECURSIVE list_SizeFrom_PadsLast(_, _)
list_SizeFrom_PadsLast(l, i) ==
    IF i > Len(l.Items) THEN 0
    ELSE (IF l.Alignment > 1 THEN Roundup(Fixed_Size(l.Items[i]), l.Alignment)
          ELSE Fixed_Size(l.Items[i]))
         + list_SizeFrom_PadsLast(l, i + 1)

(* list.Size *)
RECURSIVE list_SizeFrom(_, _)
list_SizeFrom(l, i) ==
    IF i > Len(l.Items) THEN 0
    ELSE LET itemSize == Fixed_Size(l.Items[i])
         IN  itemSize
             + (IF i < Len(l.Items) /\ l.Alignment > 1
                THEN Roundup(itemSize, l.Alignment) - itemSize ELSE 0)
             + list_SizeFrom(l, i + 1)
list_Size(l) == list_SizeFrom(l, 1)

(* w.WriteFrom(item): item.WriteTo(w.w), w.count += n, w.setError(err) *)
list_WriteItem(w, item) ==
    IF WLatched(w, "outer") THEN w
    ELSE WriterDone(Fixed_WriteTo(item, AdWrite(w, BinaryEncode(Order, item.layout, item.fields))),
                    "outer").w

list_AlignItem_PadsLast(w, l, i) ==
    IF l.Alignment > 1 THEN Writer_Align(w, "outer", l.Alignment).w ELSE w

(* if i < lastIndex && l.options.Alignment > 1 { w.Align(...) } *)
list_AlignItem(w, l, i) ==
    IF i < Len(l.Items) /\ l.Alignment > 1 THEN Writer_Align(w, "outer", l.Alignment).w ELSE w

(* The loop of list.WriteTo from item i on. *)
RECURSIVE list_WriteItems(_, _, _)
list_WriteItems(w, l, i) ==
    IF i > Len(l.Items) THEN w
    ELSE list_WriteItems(list_AlignItem(list_WriteItem(w, l.Items[i]), l, i), l, i + 1)

(* list.WriteTo(writer), w what NewWriter(writer) gives. *)
list_WriteTo(l, w) ==
    IF Len(l.Items) = 0 THEN WOut(w, 0, Nil)
    ELSE Writer_Result(list_WriteItems(w, l, 1), "outer")

(* MarshalBinaryGeneric(l) after l.WriteTo(w) gave o. *)
MarshalBinaryChecked(o, expectedSize) ==
    IF o.err # Nil THEN CodecOut(0, o.err, <<>>, NoValue)
    ELSE IF o.n < expectedSize
    THEN CodecOut(0, Wrap("expected at least", ErrTruncatedData), <<>>, NoValue)
    ELSE CodecOut(Len(o.w.sink), Nil, o.w.sink, NoValue)

(* list.MarshalBinary: MarshalBinaryGeneric(l) *)
MarshalBinaryGeneric(l) ==
    MarshalBinaryChecked(list_WriteTo(l, NewWriter("BytesWriter", list_Size(l))), list_Size(l))

(* MarshalToGeneric(l, p) after l.WriteTo(w) gave o. *)
MarshalToChecked(o, size) ==
    IF o.err # Nil THEN CodecOut(o.n, o.err, o.w.sink, NoValue)
    ELSE IF o.n < size THEN CodecOut(o.n, ErrShortWrite, o.w.sink, NoValue)
    ELSE CodecOut(o.n, Nil, o.w.sink, NoValue)

(* list.MarshalTo(buf): MarshalToGeneric(l, buf), len(buf) = len *)
MarshalToGeneric(l, len) ==
    IF len < list_Size(l) THEN CodecOut(0, ErrShortWrite, <<>>, NoValue)
    ELSE MarshalToChecked(list_WriteTo(l, NewWriter("BytesWriter", len)), list_Size(l))

(* io.ReadFull(r, buf), len(buf) = size, with got already read. *)
RECURSIVE SourceReadFull(_, _, _)
SourceReadMore(o, size, got) ==
    IF o.err # Nil
    THEN Out(o.r, Len(got) + o.n,
             IF Len(got) + o.n >= size THEN Nil
             ELSE IF Len(got) + o.n > 0 /\ o.err = EOF THEN ErrUnexpectedEOF
             ELSE o.err,
             got \o o.bytes)
    ELSE SourceReadFull(o.r, size, got \o o.bytes)
SourceReadFull(r, size, got) ==
    IF Len(got) >= size THEN Out(r, Len(got), Nil, got)
    ELSE SourceReadMore(SourceRead(r, size - Len(got)), size, got)

(* What a decoder gives back: the source as it left it, the bytes it       *)
(* counts, the error and the items decoded.                                *)
DecOut(r, n, err, items) == [r |-> r, n |-> n, err |-> err, items |-> items]

(* Fixed.ReadFrom(r) into a Fixed of type layout: binary.Read gave o. *)
Fixed_ReadFrom(layout, o) ==
    IF o.err # Nil THEN DecOut(o.r, 0, o.err, <<>>)
    ELSE DecOut(o.r, BinarySize(layout), Nil,
                <<FixedOf(layout, BinaryDecode(Order, layout, o.bytes))>>)

(* The list being decoded: element type, alignment, cap(l.Items). *)
ListTarget(layout, alignment, count) == [layout |-> layout, Alignment |-> alignment, count |-> count]

RECURSIVE list_ReadLoop(_, _, _, _, _)

(* Discard(reader, padding) gave d after item i, read bytes long. *)
list_ReadPadded(t, d, i, n, items, read) ==
    IF d.err # Nil
    THEN IF t.count = 0 /\ (d.err = EOF \/ read = 0)
         THEN DecOut(d.r, n + d.n, Nil, items)
         ELSE DecOut(d.r, n + d.n, d.err, items)
    ELSE list_ReadLoop(t, d.r, i + 1, n + d.n, items)

(* newItem.ReadFrom(reader) gave e for item i. *)
list_ReadItem(t, e, i, n, items) ==
    IF e.err # Nil
    THEN IF t.count = 0 /\ (e.err = EOF \/ e.n = 0)
         THEN DecOut(e.r, n + e.n, Nil, items)
         ELSE DecOut(e.r, n + e.n, e.err, items)
    ELSE IF ~(t.count # 0 /\ i = t.count - 1) /\ t.Alignment > 1
            /\ Roundup(e.n, t.Alignment) - e.n > 0
    THEN list_ReadPadded(t, CHOOSE d \in Discard("source", e.r, Roundup(e.n, t.Alignment) - e.n) : TRUE,
                         i, n + e.n, items \o e.items, e.n)
    ELSE list_ReadLoop(t, e.r, i + 1, n + e.n, items \o e.items)

(* for i := 0; readEOF || i < count; i++ *)
list_ReadLoop(t, r, i, n, items) ==
    IF t.count # 0 /\ i >= t.count THEN DecOut(r, n, Nil, items)
    ELSE list_ReadItem(t, Fixed_ReadFrom(t.layout, SourceReadFull(r, BinarySize(t.layout), <<>>)),
                       i, n, items)

(* list.ReadFrom(reader) *)
list_ReadFrom(t, r) == list_ReadLoop(t, r, 0, 0, <<>>)

(***************************************************************************)
(* The codec state machine: one codec value v, the bytes enc its last      *)
(* successful encode produced (by the call encBy), and the last call with  *)
(* what it was given and what it gave back.                                *)
(***************************************************************************)
Alignments == {0, 1, 2, 4, 8}

(* The records lists are made of. *)
Elems ==
    {FixedOf(<<>>, <<>>), FixedOf(<<1>>, <<255>>),
     FixedOf(<<2>>, <<258>>), FixedOf(<<1, 2>>, <<1, 258>>)}

FixedValues == UNION {{FixedOf(layout, f) : f \in Records(layout)} : layout \in RecordTypes}
ListValues ==
    {ListOf(items, a) : items \in UNION {[1..n -> Elems] : n \in 0..MaxItems}, a \in Alignments}

(* What a call was given: a buffer or sink (kind, len), a byte slice made  *)
(* of the first cut bytes of enc and k more (DataOf), a source (chunk,     *)
(* endErr) and a capacity count.                                           *)
NoIn == [kind |-> "none", len |-> 0, cut |-> 0, k |-> 0, nz |-> 0,
         chunk |-> "none", endErr |-> Nil, count |-> 0]

CdCall(op, in, n, err, out, dec, at) ==
    [op |-> op, in |-> in, n |-> n, err |-> err, out |-> out, dec |-> dec, at |-> at]
NoCdCall == CdCall("none", NoIn, 0, Nil, <<>>, NoValue, 0)

(* An encoder returned res. *)
Encoded(op, in, res) ==
    [cd EXCEPT !.enc = IF res.err = Nil THEN res.out ELSE @,
               !.encOK = @ \/ res.err = Nil,
               !.encBy = IF res.err = Nil THEN op ELSE @,
               !.last = CdCall(op, in, res.n, res.err, res.out, NoValue, 0)]

(* A WriteTo returned o. *)
Written(op, in, o) ==
    [cd EXCEPT !.enc = IF o.err = Nil THEN o.w.sink ELSE @,
               !.encOK = @ \/ o.err = Nil,
               !.encBy = IF o.err = Nil THEN op ELSE @,
               !.last = CdCall(op, in, o.n, o.err, o.w.sink, NoValue, 0)]

SinkLens(kind, size) == IF kind = "bytesBuffer" THEN {0} ELSE 0..(size + MaxSpare)

InitCodec ==
    /\ cd \in {[v |-> v, enc |-> <<>>, encOK |-> FALSE, encBy |-> "none", last |-> NoCdCall]
               : v \in FixedValues \cup ListValues}
    /\ chain = IdleChain
    /\ rd = IdleRd
    /\ wr = IdleWr
    /\ ct = IdleCt
    /\ bo = IdleBo /\ cl = IdleCl /\ bw = IdleBw /\ fs = IdleFs /\ pk = IdlePk
    /\ lm = IdleLm /\ sz = IdleSz /\ vf = IdleVf /\ nt = IdleNt

FixedMarshalBinary ==
    /\ cd.v.tag = "Fixed"
    /\ cd' = Encoded("MarshalBinary", NoIn, Fixed_MarshalBinary(cd.v))
    /\ UNCHANGED <<chain, rd, wr, ct, bo, cl, bw, fs, pk, lm, sz, vf, nt>>

FixedMarshalTo ==
    /\ cd.v.tag = "Fixed"
    /\ \E len \in 0..(Fixed_Size(cd.v) + MaxSpare) :
           cd' = Encoded("MarshalTo", [NoIn EXCEPT !.len = len], Fixed_MarshalTo(cd.v, len))
    /\ UNCHANGED <<chain, rd, wr, ct, bo, cl, bw, fs, pk, lm, sz, vf, nt>>

FixedWriteTo ==
    /\ cd.v.tag = "Fixed"
    /\ \E kind \in WrKinds : \E len \in SinkLens(kind, Fixed_Size(cd.v)) :
           cd' = Written("WriteTo", [NoIn EXCEPT !.kind = kind, !.len = len],
                         Fixed_WriteTo(cd.v, DirectWrite(NewWriter(kind, len),
                                             BinaryEncode(Order, cd.v.layout, cd.v.fields))))
    /\ UNCHANGED <<chain, rd, wr, ct, bo, cl, bw, fs, pk, lm, sz, vf, nt>>

TrailLens == {0, 1, 2, MAX_PADDING, MAX_PADDING + 1}

FixedUnmarshalBinary ==
    /\ cd.v.tag = "Fixed" /\ cd.encOK
    /\ \E cut \in 0..Len(cd.enc), k \in TrailLens, nz \in {0, 1, 2, MAX_PADDING + 1} :
           /\ nz <= k
           /\ cut < Len(cd.enc) => k = 0
           /\ LET res == Fixed_UnmarshalBinary(FixedOf(cd.v.layout, [i \in 1..Len(cd.v.layout) |-> 0]),
                                               DataOf(Take(cd.enc, cut), k, nz))
              IN  cd' = [cd EXCEPT !.last = CdCall("UnmarshalBinary",
                                                   [NoIn EXCEPT !.cut = cut, !.k = k, !.nz = nz],
                                                   res.n, res.err, <<>>, res.dec, 0)]
    /\ UNCHANGED <<chain, rd, wr, ct, bo, cl, bw, fs, pk, lm, sz, vf, nt>>

ListMarshalBinary ==
    /\ cd.v.tag = "list"
    /\ cd' = Encoded("MarshalBinary", NoIn, MarshalBinaryGeneric(cd.v))
    /\ UNCHANGED <<chain, rd, wr, ct, bo, cl, bw, fs, pk, lm, sz, vf, nt>>

ListMarshalTo ==
    /\ cd.v.tag = "list"
    /\ \E len \in 0..(list_Size(cd.v) + MaxSpare) :
           cd' = Encoded("MarshalTo", [NoIn EXCEPT !.len = len], MarshalToGeneric(cd.v, len))
    /\ UNCHANGED <<chain, rd, wr, ct, bo, cl, bw, fs, pk, lm, sz, vf, nt>>

ListWriteTo ==
    /\ cd.v.tag = "list"
    /\ \E kind \in WrKinds : \E len \in SinkLens(kind, list_Size(cd.v)) :
           cd' = Written("WriteTo", [NoIn EXCEPT !.kind = kind, !.len = len],
                         list_WriteTo(cd.v, NewWriter(kind, len)))
    /\ UNCHANGED <<chain, rd, wr, ct, bo, cl, bw, fs, pk, lm, sz, vf, nt>>

(* The items of l all have the type of the first: a list[*Fixed[P]]. *)
Homogeneous(l) == \A i \in 1..Len(l.Items) : l.Items[i].layout = l.Items[1].layout

SrcEndErrs == {EOF, ErrSource}

(* list.ReadFrom into an empty list of the type of v with capacity count,  *)
(* from a source over the first cut bytes of enc and k bytes after them.   *)
(* With capacity 0 a list of zero-size records never returns.              *)
ListReadFrom ==
    /\ cd.v.tag = "list" /\ cd.encOK /\ Len(cd.v.Items) > 0 /\ Homogeneous(cd.v)
    /\ \E count \in {0, Len(cd.v.Items)}, cut \in 0..Len(cd.enc), k \in 0..MaxSpare,
          chunk \in {"full", "byte"}, endErr \in SrcEndErrs :
           /\ cut < Len(cd.enc) => k = 0
           /\ count = 0 => Fixed_Size(cd.v.Items[1]) > 0
           /\ LET res == list_ReadFrom(ListTarget(cd.v.Items[1].layout, cd.v.Alignment, count),
                                       SourceOver(Take(cd.enc, cut) \o [i \in 1..k |-> 7],
                                                  chunk, endErr))
              IN  cd' = [cd EXCEPT !.last = CdCall("ReadFrom",
                                                   [NoIn EXCEPT !.cut = cut, !.k = k, !.chunk = chunk,
                                                                !.endErr = endErr, !.count = count],
                                                   res.n, res.err, <<>>,
                                                   ListOf(res.items, cd.v.Alignment), res.r.N)]
    /\ UNCHANGED <<chain, rd, wr, ct, bo, cl, bw, fs, pk, lm, sz, vf, nt>>

NextCodec ==
    \/ FixedMarshalBinary \/ FixedMarshalTo \/ FixedWriteTo \/ FixedUnmarshalBinary
    \/ ListMarshalBinary \/ ListMarshalTo \/ ListWriteTo \/ ListReadFrom

SpecCodec == InitCodec /\ [][NextCodec]_vars

(***************************************************************************)
(* Claims about the codecs.                                                *)
(***************************************************************************)

(* C13: Fixed record round-trip. For every fixed-layout record type and    *)
(* every value v, MarshalBinary succeeds with Size() bytes, and            *)
(* UnmarshalBinary of those bytes succeeds and yields a record equal to v. *)
C13_FixedRoundTrip ==
    cd.v.tag = "Fixed" =>
        /\ cd.last.op = "MarshalBinary" =>
              cd.last.err = Nil /\ Len(cd.last.out) = Fixed_Size(cd.v)
        /\ (cd.last.op = "UnmarshalBinary" /\ cd.encBy = "MarshalBinary"
            /\ cd.last.in.cut = Len(cd.enc) /\ cd.last.in.k = 0) =>
              cd.last.err = Nil /\ cd.last.dec = cd.v

(* The call that led to c.last is an encode that was given room for the    *)
(* whole value: MarshalBinary, MarshalTo(buf) with len(buf) >= Size(),     *)
(* WriteTo(sink) with a sink that takes Size() bytes.                      *)
CodecSize(v) == IF v.tag = "Fixed" THEN Fixed_Size(v) ELSE list_Size(v)
EncodedWithRoom(c) ==
    \/ c.last.op = "MarshalBinary"
    \/ c.last.op = "MarshalTo" /\ c.last.in.len >= CodecSize(c.v)
    \/ c.last.op = "WriteTo"
       /\ (c.last.in.kind = "bytesBuffer" \/ c.last.in.len >= CodecSize(c.v))

(* C14: Stream equivalence. For every codec value (Fixed record or list),  *)
(* MarshalTo(buf) with len(buf) >= Size(), MarshalBinary() and             *)
(* WriteTo(sink) succeed and produce byte-identical output of the same     *)
(* length: each such call gives the bytes the encode before it gave.       *)
C14_StreamEquivalence ==
    [][EncodedWithRoom(cd') =>
          /\ cd'.last.err = Nil
          /\ cd'.last.n = Len(cd'.last.out)
          /\ cd.encOK => cd'.last.out = cd.enc]_vars

(* C15: Trailing validation. UnmarshalBinary of a Fixed record on its      *)
(* encoding followed by k more bytes succeeds exactly when k <= 1024 and   *)
(* the k bytes are all zero; with a non-zero trailing byte, or with        *)
(* k > 1024 even if all are zero, it fails with ErrTrailingData.           *)
C15_TrailingValidation ==
    (cd.v.tag = "Fixed" /\ cd.last.op = "UnmarshalBinary" /\ cd.last.in.cut = Len(cd.enc)) =>
        LET k == cd.last.in.k
            allZero == cd.last.in.nz = 0
        IN  /\ cd.last.err = Nil <=> (k <= MAX_PADDING /\ allZero)
            /\ (~allZero \/ k > MAX_PADDING) => ErrorsIs(cd.last.err, ErrTrailingData)

(* More than MAX_PADDING zero bytes after the encoding of a record of      *)
(* three bytes were refused.                                               *)
C15_Witness ==
    /\ cd.v.tag = "Fixed" /\ Fixed_Size(cd.v) = 3
    /\ cd.last.op = "UnmarshalBinary" /\ cd.last.in.cut = Len(cd.enc)
    /\ cd.last.in.k = MAX_PADDING + 1 /\ cd.last.in.nz = 0
    /\ ErrorsIs(cd.last.err, ErrTrailingData)

(* C16: MarshalTo short buffer. For every codec, Fixed record and list     *)
(* alike, MarshalTo(buf) with len(buf) < Size() fails with                 *)
(* io.ErrShortBuffer, returns 0 and writes nothing to buf.                 *)
C16_MarshalToShortBuffer ==
    (cd.last.op = "MarshalTo" /\ cd.last.in.len < CodecSize(cd.v)) =>
        /\ cd.last.err = ErrShortBuffer
        /\ cd.last.n = 0
        /\ cd.last.out = <<>>

(* The bytes of item i of l and, [pad], the zero bytes that bring an       *)
(* element that is not the last to a multiple of the alignment.            *)
ItemBytes(l, i) == BinaryEncode(Order, l.Items[i].layout, l.Items[i].fields)
ItemPad(l, i) ==
    IF i < Len(l.Items) /\ l.Alignment > 1
    THEN (l.Alignment - (Len(ItemBytes(l, i)) % l.Alignment)) % l.Alignment
    ELSE 0
RECURSIVE AlignedFrom(_, _)
AlignedFrom(l, i) ==
    IF i > Len(l.Items) THEN <<>>
    ELSE ItemBytes(l, i) \o [j \in 1..ItemPad(l, i) |-> 0] \o AlignedFrom(l, i + 1)

(* list.WriteTo on the list of the state returned no error. *)
ListWritten == cd.v.tag = "list" /\ cd.last.op = "WriteTo" /\ cd.last.err = Nil

(* C17: List alignment on encode. For a list with alignment A > 1, A a     *)
(* power of two, list.WriteTo emits each element but the last followed by  *)
(* the zero bytes that make it occupy a multiple of A bytes, and no        *)
(* padding after the last element.                                         *)
C17_ListAlignment ==
    (ListWritten /\ cd.v.Alignment \in {2, 4, 8}) => cd.last.out = AlignedFrom(cd.v, 1)

(* Two records of three bytes went out with alignment 4 as seven bytes. *)
C17_Witness ==
    /\ ListWritten /\ cd.v.Alignment = 4
    /\ Len(cd.v.Items) = 2 /\ \A i \in 1..2 : Fixed_Size(cd.v.Items[i]) = 3
    /\ Len(cd.last.out) = 7 /\ cd.last.out[4] = 0

(* C18: List size agrees with encoding. For every list with alignment 0,   *)
(* 1, 4 or 8, Size() is the number of bytes list.WriteTo emits and the     *)
(* count it returns: the element sizes plus the padding between elements,  *)
(* none after the last.                                                    *)
C18_ListSize ==
    (ListWritten /\ cd.v.Alignment \in {0, 1, 4, 8}) =>
        /\ list_Size(cd.v) = Len(cd.last.out)
        /\ list_Size(cd.v) = cd.last.n
        /\ list_Size(cd.v) = Len(AlignedFrom(cd.v, 1))

(* A record of one byte and one of two went out with alignment 8 through a *)
(* bufio.Writer as ten bytes.                                              *)
C18_Witness ==
    /\ ListWritten /\ cd.v.Alignment = 8 /\ cd.last.in.kind = "bufio"
    /\ Len(cd.v.Items) = 2
    /\ Fixed_Size(cd.v.Items[1]) = 1 /\ Fixed_Size(cd.v.Items[2]) = 2
    /\ cd.last.n = 10 /\ list_Size(cd.v) = 10

(* list.ReadFrom ran on a list of capacity count > 0 / of capacity 0. *)
ListReadCounted == cd.v.tag = "list" /\ cd.last.op = "ReadFrom" /\ cd.last.in.count > 0
ListReadToEOS == cd.v.tag = "list" /\ cd.last.op = "ReadFrom" /\ cd.last.in.count = 0

(* C19: List fixed-count decode. With capacity c > 0, list.ReadFrom over   *)
(* the bytes the encoder produced for c elements with the same alignment   *)
(* reads exactly the c elements and consumes exactly the encoder's byte    *)
(* count, nothing after the last element; when the source ends before c    *)
(* complete elements were read, ReadFrom returns an error.                 *)
C19_ListFixedCount ==
    ListReadCounted =>
        /\ cd.last.in.cut = Len(cd.enc) =>
              /\ cd.last.err = Nil
              /\ cd.last.dec = cd.v
              /\ cd.last.n = Len(cd.enc)
              /\ cd.last.at = Len(cd.enc)
        /\ cd.last.in.cut < Len(cd.enc) => cd.last.err # Nil

(* Bytes from one element of the list of the state to the next in a        *)
(* stream read until its end: the element and its padding.                 *)
ListStride ==
    IF cd.v.Alignment > 1 THEN Roundup(Fixed_Size(cd.v.Items[1]), cd.v.Alignment)
    ELSE Fixed_Size(cd.v.Items[1])

(* The source of the last ReadFrom ended part-way through an element. *)
EndsInsideElement ==
    ((cd.last.in.cut + cd.last.in.k) % ListStride) \in 1..(Fixed_Size(cd.v.Items[1]) - 1)

(* C20: List until-EOS decode. With capacity 0, list.ReadFrom succeeds     *)
(* exactly when the source signals a clean end-of-stream at an element     *)
(* boundary; a source that ends part-way through an element makes it       *)
(* return io.ErrUnexpectedEOF, and a source error other than end-of-stream *)
(* makes it return that error.                                             *)
C20_ListUntilEOS ==
    ListReadToEOS =>
        /\ cd.last.err = Nil <=> (cd.last.in.endErr = EOF /\ ~EndsInsideElement)
        /\ (cd.last.in.endErr = EOF /\ EndsInsideElement) => cd.last.err = ErrUnexpectedEOF
        /\ cd.last.in.endErr # EOF => cd.last.err = cd.last.in.endErr

(***************************************************************************)
(*                             BYTE ORDER                                  *)
(*                                                                         *)
(* A typed Writer and the Writer NewWriterSize builds over it, sharing one *)
(* bytes.Buffer, or two typed Readers over a BytesReader each.  A          *)
(* multi-byte integer is the sequence of its 16-bit limbs, the most        *)
(* significant first, so that 64-bit values keep their width.              *)
(***************************************************************************)
MaxOrdWrites == 2
OrdSrcLen == 8

(* BE = binary.BigEndian, LE = binary.LittleEndian *)
Orders == {"BE", "LE"}

(* uint16(v), uint32(v), uint64(v) of a signed or unsigned v: n limbs, in  *)
(* two's complement.                                                       *)
RECURSIVE Limbs(_, _)
Limbs(v, n) == IF n = 0 THEN <<>> ELSE Limbs(v \div 65536, n - 1) \o <<v % 65536>>

(* int16(u), int32(u), int64(u): the same bits with the top limb signed. *)
Signed(u) == IF u[1] >= 32768 THEN [u EXCEPT ![1] = @ - 65536] ELSE u

(* order.PutUint16 / PutUint32 / PutUint64 (buf, v) *)
RECURSIVE PutUintW(_, _)
PutUintW(order, v) ==
    IF v = <<>> THEN <<>>
    ELSE IF order = "BE"
    THEN PutUint(order, Head(v), 2) \o PutUintW(order, Tail(v))
    ELSE PutUintW(order, Tail(v)) \o PutUint(order, Head(v), 2)

(* order.Uint16 / Uint32 / Uint64 (buf) *)
RECURSIVE UintW(_, _)
UintW(order, bs) ==
    IF bs = <<>> THEN <<>>
    ELSE IF order = "BE"
    THEN <<Uint(order, Take(bs, 2))>> \o UintW(order, Drop(bs, 2))
    ELSE UintW(order, Drop(bs, 2)) \o <<Uint(order, Take(bs, 2))>>

(* Writer.WithByteOrder, Reader.WithByteOrder: w.order = order *)
WithByteOrder(orders, who, order) == [orders EXCEPT ![who] = order]

(* Writer.WriteUint16/32/64 and WriteInt16/32/64 (v) on the Writer who. *)
Writer_WriteOrdered(w, who, order, v) == Writer_WriteWide(w, who, PutUintW(order, v))

(* Reader.ReadUint16/32/64, ReadInt16/32/64: *dest of the reader r1 that   *)
(* readFull left.                                                          *)
Reader_Decoded(r1, order, signed) ==
    IF signed THEN Signed(UintW(order, r1.dest)) ELSE UintW(order, r1.dest)

OrdWidths == {2, 4, 8}
UintArgs == {1, 48076}
IntArgs == {0 - 2}
WriterNames == {"outer", "inner"}
ReaderNames == {"a", "b"}

(* The last call: on which side and instance, the method's width and       *)
(* signedness, the integer written or decoded, the bytes that went out or  *)
(* came in, and whether the call left no error.                            *)
OrdCall(op, who, width, signed, v, bytes, ok) ==
    [op |-> op, who |-> who, width |-> width, signed |-> signed, v |-> v, bytes |-> bytes, ok |-> ok]
NoOrdCall == OrdCall("none", "none", 0, FALSE, <<>>, <<>>, FALSE)

(*  order   the order field of each instance                               *)
(*  asked   the order the caller last set on each with WithByteOrder       *)
(*  writes  the number of integers written                                 *)
InitOrder ==
    /\ bo \in {[side |-> side,
                w |-> [NewWriterOver("bytesBuffer", 0, 0, 0, FALSE) EXCEPT
                         !.hasInner = TRUE, !.t["inner"].depth = 1],
                r |-> [who \in ReaderNames |-> NewReaderOver("BytesReader", OrdSrcLen)],
                order |-> [who \in WriterNames \cup ReaderNames |-> Order],
                asked |-> [who \in WriterNames \cup ReaderNames |-> "none"],
                writes |-> 0,
                last |-> NoOrdCall] : side \in {"writers", "readers"}}
    /\ chain = IdleChain /\ rd = IdleRd /\ wr = IdleWr /\ ct = IdleCt /\ cd = IdleCd
    /\ cl = IdleCl /\ bw = IdleBw /\ fs = IdleFs /\ pk = IdlePk
    /\ lm = IdleLm /\ sz = IdleSz /\ vf = IdleVf /\ nt = IdleNt

Instances(side) == IF side = "writers" THEN WriterNames ELSE ReaderNames

SetByteOrder ==
    /\ \E who \in Instances(bo.side), order \in Orders :
           bo' = [bo EXCEPT !.order = WithByteOrder(bo.order, who, order),
                            !.asked[who] = order,
                            !.last = OrdCall("WithByteOrder", who, 0, FALSE, <<>>, <<>>, TRUE)]
    /\ UNCHANGED <<chain, rd, wr, ct, cd, cl, bw, fs, pk, lm, sz, vf, nt>>

(* The state after the Writer who wrote v, o the outcome. *)
OrdWritten(who, width, signed, v, o) ==
    [bo EXCEPT !.w = o.w, !.writes = @ + 1,
               !.last = OrdCall("Write", who, width, signed, v,
                                Drop(o.w.sink, Len(bo.w.sink)), o.w.t[who].err = Nil)]

OrderWriteUint ==
    /\ bo.side = "writers" /\ bo.writes < MaxOrdWrites
    /\ \E who \in WriterNames, width \in OrdWidths, x \in UintArgs :
           bo' = OrdWritten(who, width, FALSE, Limbs(x, width \div 2),
                            Writer_WriteOrdered(bo.w, who, bo.order[who], Limbs(x, width \div 2)))
    /\ UNCHANGED <<chain, rd, wr, ct, cd, cl, bw, fs, pk, lm, sz, vf, nt>>

OrderWriteInt ==
    /\ bo.side = "writers" /\ bo.writes < MaxOrdWrites
    /\ \E who \in WriterNames, width \in OrdWidths, x \in IntArgs :
           bo' = OrdWritten(who, width, TRUE, Signed(Limbs(x, width \div 2)),
                            Writer_WriteOrdered(bo.w, who, bo.order[who], Limbs(x, width \div 2)))
    /\ UNCHANGED <<chain, rd, wr, ct, cd, cl, bw, fs, pk, lm, sz, vf, nt>>

(* The state after the Reader who read an integer of width bytes and was   *)
(* left as r1.                                                             *)
OrdRead(who, width, signed, r1) ==
    [bo EXCEPT !.r[who] = r1,
               !.last = OrdCall("Read", who, width, signed,
                                IF r1.err = Nil THEN Reader_Decoded(r1, bo.order[who], signed)
                                ELSE <<>>,
                                IF r1.err = Nil THEN SrcBytes(bo.r[who].src, width) ELSE <<>>,
                                r1.err = Nil)]

OrderReadUint ==
    /\ bo.side = "readers"
    /\ \E who \in ReaderNames, width \in OrdWidths :
         \E r1 \in Reader_ReadWide(bo.r[who], "ReadUint", width) :
           bo' = OrdRead(who, width, FALSE, r1)
    /\ UNCHANGED <<chain, rd, wr, ct, cd, cl, bw, fs, pk, lm, sz, vf, nt>>

OrderReadInt ==
    /\ bo.side = "readers"
    /\ \E who \in ReaderNames, width \in OrdWidths :
         \E r1 \in Reader_ReadWide(bo.r[who], "ReadInt", width) :
           bo' = OrdRead(who, width, TRUE, r1)
    /\ UNCHANGED <<chain, rd, wr, ct, cd, cl, bw, fs, pk, lm, sz, vf, nt>>

NextOrder == SetByteOrder \/ OrderWriteUint \/ OrderWriteInt \/ OrderReadUint \/ OrderReadInt

SpecOrder == InitOrder /\ [][NextOrder]_vars

(* The bytes of an integer, the most significant first, and the integer    *)
(* whose bytes, the most significant first, are bs.                        *)
RECURSIVE MostSignificantFirst(_)
MostSignificantFirst(v) ==
    IF v = <<>> THEN <<>>
    ELSE <<(Head(v) % 65536) \div 256, Head(v) % 256>> \o MostSignificantFirst(Tail(v))
RECURSIVE FromMostSignificantFirst(_)
FromMostSignificantFirst(bs) ==
    IF bs = <<>> THEN <<>>
    ELSE <<bs[1] * 256 + bs[2]>> \o FromMostSignificantFirst(Drop(bs, 2))
Reversed(bs) == [i \in 1..Len(bs) |-> bs[Len(bs) + 1 - i]]

(* The bytes the last call moved are those of its integer in big-endian    *)
(* order (in little-endian order when littleEndian).                       *)
InByteOrder(littleEndian) ==
    LET msf == IF littleEndian THEN Reversed(bo.last.bytes) ELSE bo.last.bytes
    IN  IF bo.last.op = "Write"
        THEN msf = MostSignificantFirst(bo.last.v)
        ELSE bo.last.v = (IF bo.last.signed THEN Signed(FromMostSignificantFirst(msf))
                          ELSE FromMostSignificantFirst(msf))

MaxWrap == 3
MaxCloses == 2

ErrClosing == <<"base: close failed">>

ReaderWrappers == {"Reader", "ChainedReader", "LimitedReader", "PeekableReader"}
WriterWrappers == {"Writer"}

(* What a Close call did: the error it returned, how many objects of the   *)
(* stack (the base included) had their Close called, and whether the base  *)
(* was closed.                                                             *)
Closing(err, reached, closedBase) == [err |-> err, reached |-> reached, closedBase |-> closedBase]

(* The Close of the base, when it has one. *)
Base_Close(base) == Closing(base.closeErr, 1, TRUE)

(* c, ok := r.R.(io.Closer): every wrapper has a Close method, the base    *)
(* has one when it is closeable.                                           *)
IsCloser(stack, base) == stack # <<>> \/ base.closeable

(* bytesReaderAdapter, bufioReaderAdapter, bufioWriterAdapter,             *)
(* bytesBufferReaderAdapter, bytesBufferWriterAdapter, BytesReader,        *)
(* BytesWriter: Close() error { return nil }                               *)
Adapter_Close == Closing(Nil, 1, FALSE)

(* Reader.Close: return r.r.Close(); Writer.Close: return w.w.Close() *)
Typed_Close == Closing(Adapter_Close.err, 1, Adapter_Close.closedBase)

(* ChainedReader.Close, LimitedReader.Close, PeekableReader.Close, given   *)
(* what the Close of the wrapped object does.                              *)
Wrapper_Close(isCloser, inner) ==
    IF isCloser THEN Closing(inner.err, inner.reached + 1, inner.closedBase)
    ELSE Closing(Nil, 1, FALSE)

(* Close of the outermost object of stack over base. *)
RECURSIVE Close(_, _)
Close(stack, base) ==
    IF stack = <<>> THEN Base_Close(base)
    ELSE IF Head(stack) \in {"Reader", "Writer"} THEN Typed_Close
    ELSE IF IsCloser(Tail(stack), base)
    THEN Wrapper_Close(TRUE, Close(Tail(stack), base))
    ELSE Wrapper_Close(FALSE, Closing(Nil, 0, FALSE))

NoClosing == [op |-> "none", err |-> Nil, reached |-> 0, closedBase |-> FALSE]

InitClose ==
    /\ cl \in {[stack |-> <<>>, side |-> side,
                base |-> [closeable |-> c, closeErr |-> e],
                closed |-> 0, calls |-> 0, last |-> NoClosing]
               : side \in {"source", "sink"}, c \in BOOLEAN, e \in {Nil, ErrClosing}}
    /\ cl.base.closeable \/ cl.base.closeErr = Nil
    /\ chain = IdleChain /\ rd = IdleRd /\ wr = IdleWr /\ ct = IdleCt /\ cd = IdleCd
    /\ bo = IdleBo /\ bw = IdleBw /\ fs = IdleFs /\ pk = IdlePk
    /\ lm = IdleLm /\ sz = IdleSz /\ vf = IdleVf /\ nt = IdleNt

(* NewReaderSize, NewWriterSize, ChainReader, LimitReader, PeekReader over *)
(* the outermost object.                                                   *)
WrapIt ==
    /\ Len(cl.stack) < MaxWrap /\ cl.calls = 0
    /\ \E kind \in (IF cl.side = "source" THEN ReaderWrappers ELSE WriterWrappers) :
           cl' = [cl EXCEPT !.stack = <<kind>> \o @, !.last = [NoClosing EXCEPT !.op = "wrap"]]
    /\ UNCHANGED <<chain, rd, wr, ct, cd, bo, bw, fs, pk, lm, sz, vf, nt>>

(* Close() of the outermost wrapper. *)
CloseIt ==
    /\ cl.stack # <<>> /\ cl.calls < MaxCloses
    /\ LET res == Close(cl.stack, cl.base)
       IN  cl' = [cl EXCEPT !.closed = @ + (IF res.closedBase THEN 1 ELSE 0),
                            !.calls = @ + 1,
                            !.last = [op |-> "Close", err |-> res.err, reached |-> res.reached,
                                      closedBase |-> res.closedBase]]
    /\ UNCHANGED <<chain, rd, wr, ct, cd, bo, bw, fs, pk, lm, sz, vf, nt>>

NextClose == WrapIt \/ CloseIt

SpecClose == InitClose /\ [][NextClose]_vars

(* C23: Close propagation. Close on any wrapper (typed Reader, typed       *)
(* Writer, chained reader, limit reader, peekable reader) calls the Close  *)
(* of the object it wraps whenever that object is closeable, and returns   *)
(* its result; a closeable base under a stack of wrappers is closed.       *)
C23_ClosePropagation ==
    (cl.last.op = "Close" /\ IsCloser(Tail(cl.stack), cl.base)) =>
        /\ cl.last.reached >= 2
        /\ cl.last.err = Close(Tail(cl.stack), cl.base).err
        /\ cl.base.closeable => cl.last.closedBase /\ cl.last.err = cl.base.closeErr

(***************************************************************************)
(*                             BYTES WRITER                                *)
(***************************************************************************)
MaxBwLen == 2
MaxBwWrite == 3

ErrInvalidWrite == <<"codec: writer returned invalid count from Write">>

(* The bytes a caller writes, the byte of a WriteByte, the bytes a source  *)
(* of ReadFrom holds; Old fills the slice handed to NewBytesWriter.        *)
Old == 9
BwByte == 1
BwSrcByte == 2
Payload(n) == [i \in 1..n |-> BwByte]

BwOut(w, n, err) == [w |-> w, n |-> n, err |-> err]

(* n := copy(w.B[w.N:], p); w.N += n *)
BwCopy(w, p) ==
    LET n == Min(Len(w.B) - w.N, Len(p))
    IN  [w EXCEPT !.B = Take(w.B, w.N) \o Take(p, n) \o Drop(w.B, w.N + n),
                  !.N = w.N + n]

(* BytesWriter.Write(p) *)
BytesWriter_WriteInto(w, p) ==
    IF w.N >= Len(w.B)
    THEN BwOut(w, 0, ErrShortWrite)
    ELSE LET w2 == BwCopy(w, p)
         IN  BwOut(w2, w2.N - w.N, IF w2.N - w.N < Len(p) THEN ErrShortWrite ELSE Nil)

(* BytesWriter.WriteString(s) *)
BytesWriter_WriteString(w, s) ==
    IF w.N >= Len(w.B)
    THEN BwOut(w, 0, ErrShortWrite)
    ELSE LET w2 == BwCopy(w, s)
         IN  BwOut(w2, w2.N - w.N, IF w2.N - w.N < Len(s) THEN ErrShortWrite ELSE Nil)

(* BytesWriter.WriteByte(c) *)
BytesWriter_WriteByte(w, c) ==
    IF w.N >= Len(w.B)
    THEN BwOut(w, 0, ErrShortWrite)
    ELSE BwOut(BwCopy(w, <<c>>), 1, Nil)

(* BytesWriter.ReadFrom(r): one r.Read(w.B[w.N:]) that gave read =         *)
(* <<n, err>>, its bytes those of the source.                              *)
BytesWriter_ReadFromInto(w, read) ==
    IF w.N >= Len(w.B)
    THEN BwOut(w, 0, ErrShortWrite)
    ELSE IF read[1] < 0
    THEN BwOut(w, 0, ErrInvalidWrite)
    ELSE BwOut(BwCopy(w, [i \in 1..read[1] |-> BwSrcByte]), read[1],
               IF read[2] = EOF THEN Nil ELSE read[2])

(* io.CopyN(w, Zero, n): io.Copy hands LimitReader(Zero, n) to w.ReadFrom, *)
(* whose one Read gives min(room, n) zero bytes; fewer than n without an   *)
(* error is io.EOF.                                                        *)
BwCopyN(w, n) ==
    LET w2 == BwCopy(w, [i \in 1..Min(Len(w.B) - w.N, n) |-> 0])
    IN  BwOut(w2, w2.N - w.N, IF w2.N - w.N < n THEN EOF ELSE Nil)

(* BytesWriter.WriteZeros(n) *)
BytesWriter_WriteZeros(w, n) ==
    IF w.N >= Len(w.B)
    THEN BwOut(w, 0, ErrShortWrite)
    ELSE IF n <= BUFFER_SIZE
    THEN LET w2 == BwCopy(w, [i \in 1..Min(Len(w.B) - w.N, n) |-> 0])
         IN  BwOut(w2, w2.N - w.N, IF w2.N - w.N < n THEN ErrShortWrite ELSE Nil)
    ELSE BwCopyN(w, n)

(* BytesWriter.Reset *)
BytesWriter_Reset(w) == [w EXCEPT !.N = 0]

(* The last call: its method, the bytes offered, the slice and position    *)
(* before it, and what it returned.                                        *)
BwCall(op, p, w, o) ==
    [op |-> op, p |-> p, B0 |-> w.B, N0 |-> w.N, n |-> o.n, err |-> o.err]
NoBwCall == [op |-> "none", p |-> <<>>, B0 |-> <<>>, N0 |-> 0, n |-> 0, err |-> Nil]

(* NewBytesWriter(p): B = p[:cap(p)], N = 0. *)
InitBytesWriter ==
    /\ \E len \in 0..MaxBwLen :
         bw = [kind |-> "BytesWriter", B |-> [i \in 1..len |-> Old], N |-> 0,
               len0 |-> len, last |-> NoBwCall]
    /\ chain = IdleChain /\ rd = IdleRd /\ wr = IdleWr /\ ct = IdleCt /\ cd = IdleCd
    /\ bo = IdleBo /\ cl = IdleCl /\ fs = IdleFs /\ pk = IdlePk
    /\ lm = IdleLm /\ sz = IdleSz /\ vf = IdleVf /\ nt = IdleNt

BwDid(op, p, o) == [bw EXCEPT !.B = o.w.B, !.N = o.w.N, !.last = BwCall(op, p, bw, o)]

ZerosAsked == (0..MaxBwWrite) \cup {BUFFER_SIZE + 1}

BwWrite ==
    \E k \in 0..MaxBwWrite :
        /\ bw' = BwDid("Write", Payload(k), BytesWriter_WriteInto(bw, Payload(k)))
        /\ UNCHANGED <<chain, rd, wr, ct, cd, bo, cl, fs, pk, lm, sz, vf, nt>>

BwWriteString ==
    \E k \in 0..MaxBwWrite :
        /\ bw' = BwDid("WriteString", Payload(k), BytesWriter_WriteString(bw, Payload(k)))
        /\ UNCHANGED <<chain, rd, wr, ct, cd, bo, cl, fs, pk, lm, sz, vf, nt>>

BwWriteByte ==
    /\ bw' = BwDid("WriteByte", <<BwByte>>, BytesWriter_WriteByte(bw, BwByte))
    /\ UNCHANGED <<chain, rd, wr, ct, cd, bo, cl, fs, pk, lm, sz, vf, nt>>

(* WriteZeros(n): the bytes offered are n zeros, of which the call record  *)
(* keeps at most one more than the longest slice can hold.                 *)
BwWriteZeros ==
    \E n \in ZerosAsked :
        /\ bw' = BwDid("WriteZeros", Zeros(Min(n, MaxBwWrite + 1)), BytesWriter_WriteZeros(bw, n))
        /\ UNCHANGED <<chain, rd, wr, ct, cd, bo, cl, fs, pk, lm, sz, vf, nt>>

BwReadFrom ==
    \E len \in 0..MaxBwWrite :
        \E read \in SrcRead(0, len, Len(bw.B) - bw.N) \cup {<<0, ErrSource>>, <<0 - 1, Nil>>} :
            /\ bw' = BwDid("ReadFrom", <<>>, BytesWriter_ReadFromInto(bw, read))
            /\ UNCHANGED <<chain, rd, wr, ct, cd, bo, cl, fs, pk, lm, sz, vf, nt>>

BwReset ==
    /\ bw' = BwDid("Reset", <<>>, BwOut(BytesWriter_Reset(bw), 0, Nil))
    /\ UNCHANGED <<chain, rd, wr, ct, cd, bo, cl, fs, pk, lm, sz, vf, nt>>

NextBytesWriter ==
    \/ BwWrite
    \/ BwWriteString
    \/ BwWriteByte
    \/ BwWriteZeros
    \/ BwReadFrom
    \/ BwReset

SpecBytesWriter == InitBytesWriter /\ [][NextBytesWriter]_vars

(* The write of the bytes p at position N0 of the slice B0 copied exactly  *)
(* the prefix that fits and advanced N by its length.                      *)
PrefixCopied(w, p, B0, N0) ==
    LET fit == Min(Len(p), Len(B0) - N0)
    IN  /\ w.N = N0 + fit
        /\ w.B = Take(B0, N0) \o Take(p, fit) \o Drop(B0, N0 + fit)

BwWrites == {"Write", "WriteString", "WriteByte", "WriteZeros"}

(* C27: the byte-slice sink is bounded. After any sequence of Write,       *)
(* WriteString, WriteByte, WriteZeros, ReadFrom and Reset on a BytesWriter *)
(* 0 <= N <= len(B) and len(B) never changes; a write of p bytes when      *)
(* fewer than p bytes remain copies exactly the prefix that fits, advances *)
(* N by that amount and reports short-write.                               *)
C27_BytesWriterBounded ==
    /\ bw.N \in 0..Len(bw.B)
    /\ Len(bw.B) = bw.len0
    /\ (bw.last.op \in BwWrites /\ Len(bw.last.p) > Len(bw.last.B0) - bw.last.N0) =>
           /\ PrefixCopied(bw, bw.last.p, bw.last.B0, bw.last.N0)
           /\ bw.last.op # "WriteByte" => bw.last.n = bw.N - bw.last.N0
           /\ bw.last.err = ErrShortWrite

(***************************************************************************)
(*                        FORWARD-SEEK ADAPTER                             *)
(***************************************************************************)
MaxFsLen == 4
MaxFsStart == 1
MaxFsRead == 2
MaxFsOff == 3

(* forwardSeeker.Read(p), len(p) = m: n, err := s.r.Read(p); s.offset += n *)
forwardSeeker_Read_Uncounted(r, m) == RawRead(r, m)
forwardSeeker_Read(r, m) ==
    {Out([o.r EXCEPT !.fsOff = r.fsOff + o.n], o.n, o.err, <<>>) : o \in RawRead(r, m)}

(* The last call: what it returned, and the offset and the position of the *)
(* wrapped source before it.                                               *)
FsCall(op, r, o) == [op |-> op, n |-> o.n, err |-> o.err, off0 |-> r.fsOff, src0 |-> r.src]
NoFsCall == [op |-> "none", n |-> 0, err |-> Nil, off0 |-> 0, src0 |-> 0]

(* ForwardSeeker(r) over a source of L bytes of which the first start were *)
(* read before it was wrapped: offset 0.                                   *)
InitForwardSeeker ==
    /\ \E len \in 0..MaxFsLen, start \in 0..MaxFsStart :
         /\ start <= len
         /\ fs = [kind |-> "forwardSeeker", L |-> len, start |-> start, src |-> start,
                  fsOff |-> 0, last |-> NoFsCall]
    /\ chain = IdleChain /\ rd = IdleRd /\ wr = IdleWr /\ ct = IdleCt /\ cd = IdleCd
    /\ bo = IdleBo /\ cl = IdleCl /\ bw = IdleBw /\ pk = IdlePk
    /\ lm = IdleLm /\ sz = IdleSz /\ vf = IdleVf /\ nt = IdleNt

FsDid(op, o) == [o.r EXCEPT !.last = FsCall(op, fs, o)]

FsRead ==
    \E m \in 0..MaxFsRead :
        \E o \in forwardSeeker_Read(fs, m) :
            /\ fs' = FsDid("Read", o)
            /\ UNCHANGED <<chain, rd, wr, ct, cd, bo, cl, bw, pk, lm, sz, vf, nt>>

FsOffsets == ((0 - MaxFsOff)..MaxFsOff) \cup {BUFFER_SIZE + 1}

(* Seek returns s.offset as its position. *)
FsSeek ==
    \E offset \in FsOffsets, whence \in Whences :
        \E o \in forwardSeeker_Seek(fs, offset, whence) :
            /\ fs' = FsDid("Seek", o)
            /\ UNCHANGED <<chain, rd, wr, ct, cd, bo, cl, bw, pk, lm, sz, vf, nt>>

NextForwardSeeker ==
    \/ FsRead
    \/ FsSeek

SpecForwardSeeker == InitForwardSeeker /\ [][NextForwardSeeker]_vars

Rejected(err) ==
    \/ ErrorsIs(err, ErrUnsupportedNegativeSeek)
    \/ ErrorsIs(err, ErrInvalidWhence)

(* C28: forward-seek adapter offset. After any sequence of Read and Seek   *)
(* calls, successful or failing, the adapter's offset never decreases and  *)
(* equals the total number of bytes consumed from the wrapped source; a    *)
(* Seek rejected with UnsupportedNegativeSeek or InvalidWhence consumes    *)
(* nothing and returns the unchanged offset.                               *)
C28_ForwardSeekOffset ==
    /\ fs.fsOff = fs.src - fs.start
    /\ fs.fsOff >= fs.last.off0
    /\ (fs.last.op = "Seek" /\ Rejected(fs.last.err)) =>
           /\ fs.src = fs.last.src0
           /\ fs.fsOff = fs.last.off0
           /\ fs.last.n = fs.last.off0

(* A SeekStart beyond the end of the source fails with io.EOF after the    *)
(* bytes that were left went by, and the offset counts them.               *)
C28_Witness ==
    /\ fs.last.op = "Seek" /\ fs.last.err = EOF
    /\ fs.start = 1 /\ fs.last.off0 = 1 /\ fs.last.src0 = 2
    /\ fs.src = fs.L /\ fs.L = 4 /\ fs.fsOff = 3 /\ fs.last.n = 3

(***************************************************************************)
(*                          PEEKABLE READER                                *)
(***************************************************************************)
MaxPkLen == 3
MaxPeek == 3
MaxPkRead == 2
MaxDstRoom == 2

(* const CHUNK_SIZE = 32 * 1024: the size of a pooled copy buffer. *)
CHUNK_SIZE == 32768

(* An outcome: the reader after the call, the bytes it handed over, the    *)
(* error and the count it returned.                                        *)
PkOutN(r, bytes, err, n) == [r |-> r, bytes |-> bytes, err |-> err, n |-> n]
PkOut(r, bytes, err) == PkOutN(r, bytes, err, Len(bytes))

(* One r.R.Read into a slice of m bytes that gave read = <<n, err>>: the   *)
(* source moved n bytes on.                                                *)
PkSourceRead(r, read) == [r EXCEPT !.src = r.src + read[1]]

(* The loop of Peek: read into r.B[i:] until r.B holds n bytes or a Read   *)
(* returns an error; r.B is trimmed to what was read.                      *)
RECURSIVE PeekFill(_, _)
PeekFill(r, n) ==
    IF Len(r.B) >= n
    THEN {PkOut(r, r.B, Nil)}
    ELSE UNION {LET r2 == [PkSourceRead(r, read) EXCEPT
                               !.B = r.B \o SrcBytes(r.src, read[1])]
                IN  IF read[2] # Nil
                    THEN {PkOut(r2, r2.B, read[2])}
                    ELSE PeekFill(r2, n)
                : read \in SrcRead(r.src, r.L, n - Len(r.B))}

(* PeekableReader.Peek(n) *)
PeekableReader_Peek(r, n) ==
    IF Len(r.B) >= n THEN {PkOut(r, Take(r.B, n), Nil)} ELSE PeekFill(r, n)

(* PeekableReader.Read(p), len(p) = m *)
PeekableReader_Read_KeepsBuffer(r, m) ==
    IF m <= Len(r.B)
    THEN {PkOut(r, Take(r.B, m), Nil)}
    ELSE {PkOut([PkSourceRead(r, read) EXCEPT !.B = <<>>],
                r.B \o SrcBytes(r.src, read[1]), read[2])
          : read \in SrcRead(r.src, r.L, m - Len(r.B))}
PeekableReader_Read(r, m) ==
    IF m <= Len(r.B)
    THEN {PkOut([r EXCEPT !.B = Drop(r.B, m)], Take(r.B, m), Nil)}
    ELSE {PkOut([PkSourceRead(r, read) EXCEPT !.B = <<>>],
                r.B \o SrcBytes(r.src, read[1]), read[2])
          : read \in SrcRead(r.src, r.L, m - Len(r.B))}

(* A destination: its Write accepts the bytes it has room for and may or   *)
(* may not report an error when it accepts fewer than offered; rf says it  *)
(* is an io.ReaderFrom.                                                    *)
Dests == [room : 0..MaxDstRoom, reports : BOOLEAN, rf : BOOLEAN]
Accepts(d, p) == Min(Len(p), d.room)
DstErr(d, p) == IF Accepts(d, p) < Len(p) /\ d.reports THEN ErrSinkFull ELSE Nil
DstAfter(d, p) == [d EXCEPT !.room = d.room - Accepts(d, p)]

(* wt.WriteTo(w) of a source such as bytes.Reader: one w.Write of all that *)
(* is left, the source advanced by what was accepted.                      *)
SourceWriteTo(r, d) ==
    LET p == SrcBytes(r.src, SrcAvail(r.src, r.L))
        k == Accepts(d, p)
    IN  IF Len(p) = 0
        THEN {PkOut(r, <<>>, Nil)}
        ELSE {PkOut([r EXCEPT !.src = r.src + k], Take(p, k),
                    IF k < Len(p) /\ DstErr(d, p) = Nil THEN ErrShortWrite ELSE DstErr(d, p))}

(* rf.ReadFrom(r.R) of a destination such as BytesWriter: one Read into    *)
(* the room it has.                                                        *)
DestReadFrom(r, d) ==
    IF d.room = 0
    THEN {PkOut(r, <<>>, ErrShortWrite)}
    ELSE {PkOut(PkSourceRead(r, read), SrcBytes(r.src, read[1]),
                IF read[2] = EOF THEN Nil ELSE read[2])
          : read \in SrcRead(r.src, r.L, d.room)}

(* The manual loop of WriteTo: Read a chunk, Write it; an error of Write   *)
(* ends the loop, a short Write without error puts buf[written:read] into  *)
(* r.B and ends it with io.ErrShortWrite.                                  *)
RECURSIVE CopyLoop(_, _, _)
CopyLoop(r, d, sent) ==
    UNION {LET r2 == PkSourceRead(r, read)
               p == SrcBytes(r.src, read[1])
               k == Accepts(d, p)
           IN  IF read[1] > 0 /\ DstErr(d, p) # Nil
               THEN {PkOut(r2, sent \o Take(p, k), DstErr(d, p))}
               ELSE IF read[1] > 0 /\ k # read[1]
               THEN {PkOut([r2 EXCEPT !.B = Drop(p, k)], sent \o Take(p, k), ErrShortWrite)}
               ELSE IF read[2] # Nil
               THEN {PkOut(r2, sent \o p, IF read[2] = EOF THEN Nil ELSE read[2])}
               ELSE CopyLoop(r2, DstAfter(d, p), sent \o p)
           : read \in SrcRead(r.src, r.L, CHUNK_SIZE)}

(* WriteTo once the residual is written: the hooks, else the loop; sent    *)
(* are the bytes the destination has accepted. A hook's own count is       *)
(* returned as it is; the loop adds to the count of the residual.          *)
WriteToSource(r, d, sent) ==
    IF r.srcWT
    THEN {PkOutN(o.r, sent \o o.bytes, o.err, o.n) : o \in SourceWriteTo(r, d)}
    ELSE IF d.rf
    THEN {PkOutN(o.r, sent \o o.bytes, o.err, o.n) : o \in DestReadFrom(r, d)}
    ELSE CopyLoop(r, d, sent)

(* PeekableReader.WriteTo(w) *)
PeekableReader_WriteTo(r, d) ==
    LET k == Accepts(d, r.B)
        r2 == [r EXCEPT !.B = Drop(r.B, k)]
    IN  IF Len(r.B) = 0
        THEN WriteToSource(r, d, <<>>)
        ELSE IF DstErr(d, r.B) # Nil
        THEN {PkOut(r2, Take(r.B, k), DstErr(d, r.B))}
        ELSE IF Len(r2.B) > 0
        THEN {PkOut(r2, Take(r.B, k), ErrShortWrite)}
        ELSE WriteToSource(r2, DstAfter(d, r.B), Take(r.B, k))

(* The bytes delivered so far, by Read and to destinations, followed by    *)
(* the residual, are the bytes taken from the source.                      *)
NothingLost(r) == r.got \o r.B = SrcBytes(0, r.src)

PkCall(op, asked, r, o) ==
    [op |-> op, asked |-> asked, bytes |-> o.bytes, err |-> o.err, n |-> o.n,
     got0 |-> r.got, B0 |-> r.B, kept0 |-> NothingLost(r)]
NoPkCall ==
    [op |-> "none", asked |-> 0, bytes |-> <<>>, err |-> Nil, n |-> 0,
     got0 |-> <<>>, B0 |-> <<>>, kept0 |-> TRUE]

(* PeekReader(r) over a source of L bytes: B is empty. *)
InitPeek ==
    /\ \E len \in 0..MaxPkLen, wt \in BOOLEAN :
         pk = [kind |-> "PeekableReader", L |-> len, src |-> 0, srcWT |-> wt,
               B |-> <<>>, got |-> <<>>, wtCalls |-> 0, last |-> NoPkCall]
    /\ chain = IdleChain /\ rd = IdleRd /\ wr = IdleWr /\ ct = IdleCt /\ cd = IdleCd
    /\ bo = IdleBo /\ cl = IdleCl /\ bw = IdleBw /\ fs = IdleFs
    /\ lm = IdleLm /\ sz = IdleSz /\ vf = IdleVf /\ nt = IdleNt

PkPeek ==
    \E n \in 0..MaxPeek :
        \E o \in PeekableReader_Peek(pk, n) :
            /\ pk' = [o.r EXCEPT !.last = PkCall("Peek", n, pk, o)]
            /\ UNCHANGED <<chain, rd, wr, ct, cd, bo, cl, bw, fs, lm, sz, vf, nt>>

PkRead ==
    \E m \in 0..MaxPkRead :
        \E o \in PeekableReader_Read(pk, m) :
            /\ pk' = [o.r EXCEPT !.got = pk.got \o o.bytes,
                                 !.last = PkCall("Read", m, pk, o)]
            /\ UNCHANGED <<chain, rd, wr, ct, cd, bo, cl, bw, fs, lm, sz, vf, nt>>

PkWriteTo ==
    \E d \in Dests :
        \E o \in PeekableReader_WriteTo(pk, d) :
            /\ pk' = [o.r EXCEPT !.got = pk.got \o o.bytes,
                                 !.wtCalls = 1,
                                 !.last = PkCall("WriteTo", d.room, pk, o)]
            /\ UNCHANGED <<chain, rd, wr, ct, cd, bo, cl, bw, fs, lm, sz, vf, nt>>

NextPeek ==
    \/ PkPeek
    \/ PkRead
    \/ PkWriteTo

SpecPeek == InitPeek /\ [][NextPeek]_vars

(* The bytes of the source that no Read has returned yet start at the      *)
(* offset Len(got); Remaining is how many there are.                       *)
Remaining(r) == r.L - Len(r.got)

(* C29: peekable reader transparency. Peek(n) returns the next             *)
(* min(n, remaining) bytes without advancing the logical position, and for *)
(* any interleaving of Peek and Read calls the concatenation of the bytes  *)
(* returned by Read is exactly the source byte sequence in order, with no  *)
(* byte lost or duplicated.                                                *)
C29_PeekTransparency ==
    pk.wtCalls = 0 =>
        /\ NothingLost(pk)
        /\ pk.got = SrcBytes(0, Len(pk.got))
        /\ pk.last.op = "Peek" =>
               /\ pk.got = pk.last.got0
               /\ pk.last.bytes = SrcBytes(Len(pk.got), Min(pk.last.asked, Remaining(pk)))
               /\ pk.last.bytes = Take(pk.B, Len(pk.last.bytes))
        /\ pk.last.op = "Read" =>
               /\ pk.got = pk.last.got0 \o pk.last.bytes
               /\ Len(pk.last.bytes) <= pk.last.asked
               /\ pk.last.bytes = <<>> => (pk.last.asked = 0 \/ pk.last.err = EOF)

(* After Peek(2) left two bytes in the residual and Read(1) took one of    *)
(* them, Read(2) returns the other and the first of the source after it.   *)
C29_Witness ==
    /\ pk.wtCalls = 0 /\ pk.last.op = "Read" /\ pk.last.asked = 2
    /\ pk.last.B0 = <<1>> /\ pk.last.got0 = <<0>>
    /\ pk.last.bytes = <<1, 2>> /\ pk.B = <<>> /\ pk.src = 3

(* C30: the peekable reader's WriteTo loses no data. Whenever a            *)
(* destination Write inside WriteTo accepts fewer bytes than offered, with *)
(* or without returning an error, every byte already taken from the        *)
(* residual or read from the source but not accepted by the destination is *)
(* retained in the residual buffer, so that a later Read or WriteTo        *)
(* delivers it next, in order.                                             *)
C30_WriteToLosesNothing ==
    (pk.last.op = "WriteTo" /\ pk.last.kept0) => NothingLost(pk)

(* C39: peekable reader WriteTo count. The byte count returned by          *)
(* PeekableReader.WriteTo equals the total number of bytes it wrote to the *)
(* destination in that call, residual (previously peeked) bytes plus bytes *)
(* copied from the source, on every copy path: source WriterTo,            *)
(* destination ReaderFrom, pooled-buffer loop.                             *)
C39_WriteToCount ==
    pk.last.op = "WriteTo" => pk.last.n = Len(pk.last.bytes)

(***************************************************************************)
(*                            LIMIT READER                                 *)
(***************************************************************************)
MaxLmLen == 3
MaxLimit == 3
MaxLmRead == 2

LmOut(r, n, err, short) == [r |-> r, n |-> n, err |-> err, short |-> short]

(* io.LimitedReader.Read(p), len(p) = m: end-of-stream once N <= 0, else   *)
(* one R.Read of at most N bytes; N -= n.                                  *)
LimitedReader_Read_Unbounded(r, m) ==
    {LmOut([r EXCEPT !.src = r.src + read[1], !.N = r.N - read[1]], read[1], read[2], FALSE)
     : read \in SrcRead(r.src, r.L, m)}
LimitedReader_Read(r, m) ==
    IF r.N <= 0
    THEN {LmOut(r, 0, EOF, FALSE)}
    ELSE {LmOut([r EXCEPT !.src = r.src + read[1], !.N = r.N - read[1]], read[1], read[2], FALSE)
          : read \in SrcRead(r.src, r.L, Min(m, r.N))}

(* rf.ReadFrom(r.LimitedReader) of a destination such as BytesWriter: one  *)
(* Read into the room it has.                                              *)
LmDestReadFrom(r, d) ==
    IF d.room = 0
    THEN {LmOut(r, 0, ErrShortWrite, FALSE)}
    ELSE {LmOut(o.r, o.n, IF o.err = EOF THEN Nil ELSE o.err, FALSE)
          : o \in LimitedReader_Read(r, d.room)}

(* The loop of LimitedReader.WriteTo: r.Read(buf), w.Write(buf[0:read]);   *)
(* n counts what w accepted, short says that a Write took fewer bytes than *)
(* it was offered.                                                         *)
RECURSIVE LmCopyLoop(_, _, _)
LmCopyLoop(r, d, n) ==
    UNION {LET p == SrcBytes(r.src, o.n)
               k == Accepts(d, p)
           IN  IF o.n > 0 /\ DstErr(d, p) # Nil
               THEN {LmOut(o.r, n + k, DstErr(d, p), k < o.n)}
               ELSE IF o.n > 0 /\ k # o.n
               THEN {LmOut(o.r, n + k, ErrShortWrite, TRUE)}
               ELSE IF o.err # Nil
               THEN {LmOut(o.r, n + k, IF o.err = EOF THEN Nil ELSE o.err, FALSE)}
               ELSE LmCopyLoop(o.r, DstAfter(d, p), n + k)
           : o \in LimitedReader_Read(r, CHUNK_SIZE)}

(* LimitedReader.WriteTo(w) *)
LimitedReader_WriteTo(r, d) ==
    IF d.rf THEN LmDestReadFrom(r, d) ELSE LmCopyLoop(r, d, 0)

LmCall(op, o, d) ==
    [op |-> op, n |-> o.n, err |-> o.err, short |-> o.short, rf |-> d.rf, reports |-> d.reports]
NoLmCall ==
    [op |-> "none", n |-> 0, err |-> Nil, short |-> FALSE, rf |-> FALSE, reports |-> FALSE]
NoDest == [room |-> 0, reports |-> FALSE, rf |-> FALSE]

(* LimitReader(r, n) over a source of L bytes: N = n; got counts the bytes *)
(* delivered to callers and destinations.                                  *)
InitLimit ==
    /\ \E len \in 0..MaxLmLen, n \in 0..MaxLimit :
         lm = [kind |-> "LimitedReader", L |-> len, src |-> 0, limit |-> n, N |-> n,
               got |-> 0, last |-> NoLmCall]
    /\ chain = IdleChain /\ rd = IdleRd /\ wr = IdleWr /\ ct = IdleCt /\ cd = IdleCd
    /\ bo = IdleBo /\ cl = IdleCl /\ bw = IdleBw /\ fs = IdleFs /\ pk = IdlePk
    /\ sz = IdleSz /\ vf = IdleVf /\ nt = IdleNt

LmRead ==
    \E m \in 0..MaxLmRead :
        \E o \in LimitedReader_Read(lm, m) :
            /\ lm' = [o.r EXCEPT !.got = lm.got + o.n, !.last = LmCall("Read", o, NoDest)]
            /\ UNCHANGED <<chain, rd, wr, ct, cd, bo, cl, bw, fs, pk, sz, vf, nt>>

LmWriteTo ==
    \E d \in Dests :
        \E o \in LimitedReader_WriteTo(lm, d) :
            /\ lm' = [o.r EXCEPT !.got = lm.got + o.n, !.last = LmCall("WriteTo", o, d)]
            /\ UNCHANGED <<chain, rd, wr, ct, cd, bo, cl, bw, fs, pk, sz, vf, nt>>

NextLimit ==
    \/ LmRead
    \/ LmWriteTo

SpecLimit == InitLimit /\ [][NextLimit]_vars

(* The bytes delivered and the bytes consumed from the source stay within  *)
(* the limit.                                                              *)
WithinLimit == lm.got <= lm.limit /\ lm.src <= lm.limit /\ lm.N = lm.limit - lm.src

(* C31: limit reader bound. For LimitReader(r, N), across any sequence of  *)
(* Read and WriteTo calls, through the destination's ReadFrom and through  *)
(* the pooled-buffer loop, the bytes delivered to callers and destinations *)
(* and the bytes consumed from r never exceed N; in the loop a destination *)
(* Write that accepts fewer bytes than offered makes WriteTo return        *)
(* short-write.                                                            *)
C31_LimitBound ==
    /\ WithinLimit
    /\ (lm.last.op = "WriteTo" /\ ~lm.last.rf /\ lm.last.short) => lm.last.err = ErrShortWrite

(* C31 as the code has it: the bound holds, and a short Write in the loop  *)
(* makes WriteTo return the error of that Write, or short-write when the   *)
(* Write returned none.                                                    *)
C31_LimitBoundAmended ==
    /\ WithinLimit
    /\ (lm.last.op = "WriteTo" /\ ~lm.last.rf /\ lm.last.short) =>
           lm.last.err = IF lm.last.reports THEN ErrSinkFull ELSE ErrShortWrite

(* A WriteTo through the loop whose destination took two of three bytes    *)
(* without an error: short-write, with the limit reached.                  *)
C31_Witness ==
    /\ lm.last.op = "WriteTo" /\ ~lm.last.rf /\ lm.last.short /\ ~lm.last.reports
    /\ lm.last.err = ErrShortWrite /\ lm.last.n = 2
    /\ lm.limit = 3 /\ lm.src = 3 /\ lm.N = 0 /\ lm.got = 2

(***************************************************************************)
(*                       SIZE CACHE OF Fixed.Size                          *)
(***************************************************************************)
MaxSizeCalls == 2
SzTasks == {1, 2}

(* Record types, as layouts: a byte, a uint16 with a byte, and the uint32  *)
(* with a [4]byte of TestFixedSizeCodec_SizeCache.                         *)
SzTypes == {<<1>>, <<2, 1>>, <<4, 1, 1, 1, 1>>}

(* sizeCache = xsync.NewMap[reflect.Type, int](): no entries. *)
NoEntry == [ok |-> FALSE, size |-> 0]
NewSizeCache == [ty \in SzTypes |-> NoEntry]

(* sizeCache.Load(bodyType) *)
sizeCache_Load_ZeroValue(cache, ty) == [ok |-> TRUE, size |-> cache[ty].size]
sizeCache_Load(cache, ty) == cache[ty]

(* sizeCache.Store(bodyType, size) *)
sizeCache_Store(cache, ty, size) == [cache EXCEPT ![ty] = [ok |-> TRUE, size |-> size]]

(* A task: where it is in Size(), the type of its codec, the size it       *)
(* computed, whether its last call missed the cache, and what the call     *)
(* returned.                                                               *)
SzIdle ==
    [pc |-> "idle", ty |-> <<1>>, size |-> 0, missed |-> FALSE, returned |-> FALSE,
     ret |-> 0, calls |-> 0]

InitSize ==
    /\ sz = [kind |-> "sizeCache", cache |-> NewSizeCache, task |-> [t \in SzTasks |-> SzIdle]]
    /\ chain = IdleChain /\ rd = IdleRd /\ wr = IdleWr /\ ct = IdleCt /\ cd = IdleCd
    /\ bo = IdleBo /\ cl = IdleCl /\ bw = IdleBw /\ fs = IdleFs /\ pk = IdlePk
    /\ lm = IdleLm /\ vf = IdleVf /\ nt = IdleNt

(* A task calls Size() on a Fixed codec of type ty. *)
SzCall ==
    \E t \in SzTasks, ty \in SzTypes :
        /\ sz.task[t].pc = "idle" /\ sz.task[t].calls < MaxSizeCalls
        /\ sz' = [sz EXCEPT !.task[t] = [pc |-> "load", ty |-> ty, size |-> 0, missed |-> FALSE,
                                         returned |-> FALSE, ret |-> 0,
                                         calls |-> sz.task[t].calls + 1]]
        /\ UNCHANGED <<chain, rd, wr, ct, cd, bo, cl, bw, fs, pk, lm, vf, nt>>

(* if size, ok := sizeCache.Load(bodyType); ok { return size } *)
SzLoaded(task, entry) ==
    IF entry.ok
    THEN [task EXCEPT !.pc = "idle", !.returned = TRUE, !.ret = entry.size]
    ELSE [task EXCEPT !.pc = "compute", !.missed = TRUE]

SzLoad ==
    \E t \in SzTasks :
        /\ sz.task[t].pc = "load"
        /\ sz' = [sz EXCEPT !.task[t] = SzLoaded(sz.task[t], sizeCache_Load(sz.cache, sz.task[t].ty))]
        /\ UNCHANGED <<chain, rd, wr, ct, cd, bo, cl, bw, fs, pk, lm, vf, nt>>

(* size := binary.Size(&c.Payload) *)
SzCompute ==
    \E t \in SzTasks :
        /\ sz.task[t].pc = "compute"
        /\ sz' = [sz EXCEPT !.task[t].pc = "store", !.task[t].size = BinarySize(sz.task[t].ty)]
        /\ UNCHANGED <<chain, rd, wr, ct, cd, bo, cl, bw, fs, pk, lm, vf, nt>>

(* sizeCache.Store(bodyType, size); return size *)
SzStore ==
    \E t \in SzTasks :
        /\ sz.task[t].pc = "store"
        /\ sz' = [sz EXCEPT !.cache = sizeCache_Store(sz.cache, sz.task[t].ty, sz.task[t].size),
                            !.task[t].pc = "idle", !.task[t].returned = TRUE,
                            !.task[t].ret = sz.task[t].size]
        /\ UNCHANGED <<chain, rd, wr, ct, cd, bo, cl, bw, fs, pk, lm, vf, nt>>

NextSize ==
    \/ SzCall
    \/ SzLoad
    \/ SzCompute
    \/ SzStore

SpecSize == InitSize /\ [][NextSize]_vars

(* The binary size of the record types. *)
RecordSize(ty) ==
    CASE ty = <<1>> -> 1
      [] ty = <<2, 1>> -> 3
      [] ty = <<4, 1, 1, 1, 1>> -> 8

(* C32: the size cache under concurrency. For any number of tasks calling  *)
(* Size() concurrently on Fixed codecs of the same record type, the first, *)
(* cache-populating calls racing with each other included, every call      *)
(* returns the same value, the record's binary size, and once the map has  *)
(* an entry for a type its value never changes.                            *)
C32_SizeCache ==
    [][/\ \A ty \in SzTypes : sz.cache[ty].ok => sz'.cache[ty] = sz.cache[ty]
       /\ \A t \in SzTasks :
              sz'.task[t].returned => sz'.task[t].ret = RecordSize(sz'.task[t].ty)]_vars

(* Two first calls for the same type raced: both missed the cache, both    *)
(* stored, both returned.                                                  *)
C32_Witness ==
    /\ sz.kind = "sizeCache"
    /\ \A t \in SzTasks :
           /\ sz.task[t].ty = <<4, 1, 1, 1, 1>> /\ sz.task[t].calls = 1
           /\ sz.task[t].missed /\ sz.task[t].returned /\ sz.task[t].ret = 8
    /\ sz.cache[<<4, 1, 1, 1, 1>>] = [ok |-> TRUE, size |-> 8]

(***************************************************************************)
(*                     ReadVariableFieldStream                             *)
(***************************************************************************)
MaxVfLen == 4
MaxVfCur == 1
MaxVfSkip == 2
MaxVfField == 2

(* The destinations: nil (io.Discard), a BytesWriter of targetFieldLength  *)
(* bytes, whose ReadFrom is one Read, and a writer such as bytes.Buffer    *)
(* that takes all it is given.                                             *)
VfDests == {"nil", "BytesWriter", "Buffer"}

(* io.CopyN(dst, r, n): io.Copy hands LimitReader(r, n) to dst.ReadFrom.   *)
(* BytesWriter.ReadFrom is a single Read into its n bytes, and CopyN turns *)
(* a short count without error into io.EOF; io.Discard and bytes.Buffer    *)
(* read until n bytes went by or an error did.                             *)
CopyNTo(dst, r, n) ==
    IF dst = "BytesWriter"
    THEN {Out(o.r, o.n, IF o.n = n THEN Nil ELSE IF o.err = Nil THEN EOF ELSE o.err, <<>>)
          : o \in RawRead(r, n)}
    ELSE DiscardCopyN("raw", r, n, 0)

(* The field copied after the skip d: n adds up, the bytes dst received    *)
(* are those the source gave, named by their offsets in the packet.        *)
FieldCopied(d, c, cur) == Out(c.r, d.n + c.n, c.err, SrcBytes(cur + d.r.src, c.n))

(* ReadVariableFieldStream(dst, r, currentReadOffset, targetFieldOffset,   *)
(* targetFieldLength)                                                      *)
ReadVariableFieldStream(dst, r, cur, off, len) ==
    IF len = 0
    THEN {Out(r, 0, Nil, <<>>)}
    ELSE UNION {IF d.err # Nil
                THEN {Out(d.r, d.n, d.err, <<>>)}
                ELSE {FieldCopied(d, c, cur) : c \in CopyNTo(dst, d.r, len)}
                : d \in Discard("raw", r, off - cur)}

(* ReadVariableField(r, currentReadOffset, targetFieldOffset,              *)
(* targetFieldLength): the bytes are nil when the stream version failed.   *)
ReadVariableField(r, cur, off, len) ==
    IF len = 0 \/ off < cur
    THEN {Out(r, 0, Nil, <<>>)}
    ELSE {Out(o.r, o.n, o.err, IF o.err # Nil THEN <<>> ELSE o.bytes)
          : o \in ReadVariableFieldStream("BytesWriter", r, cur, off, len)}

VfResult(o) == [n |-> o.n, err |-> o.err, bytes |-> o.bytes]
NoVfResult == [n |-> 0, err |-> Nil, bytes |-> <<>>]

(* A call to make: a source of L bytes that starts at packet offset cur.   *)
InitVarField ==
    /\ \E len \in 0..MaxVfLen, cur \in 0..MaxVfCur, skip \in (0 - 1)..MaxVfSkip,
          field \in 0..MaxVfField, dst \in VfDests, fn \in {"Stream", "Field"} :
         /\ fn = "Field" => dst = "BytesWriter"
         /\ vf = [kind |-> "call", fn |-> fn, L |-> len, src |-> 0, cur |-> cur,
                  off |-> cur + skip, len |-> field, dst |-> dst, done |-> FALSE,
                  res |-> NoVfResult]
    /\ chain = IdleChain /\ rd = IdleRd /\ wr = IdleWr /\ ct = IdleCt /\ cd = IdleCd
    /\ bo = IdleBo /\ cl = IdleCl /\ bw = IdleBw /\ fs = IdleFs /\ pk = IdlePk
    /\ lm = IdleLm /\ sz = IdleSz /\ nt = IdleNt

CallReadVariableFieldStream ==
    /\ vf.fn = "Stream" /\ ~vf.done
    /\ \E o \in ReadVariableFieldStream(vf.dst, vf, vf.cur, vf.off, vf.len) :
           vf' = [o.r EXCEPT !.done = TRUE, !.res = VfResult(o)]
    /\ UNCHANGED <<chain, rd, wr, ct, cd, bo, cl, bw, fs, pk, lm, sz, nt>>

CallReadVariableField ==
    /\ vf.fn = "Field" /\ ~vf.done
    /\ \E o \in ReadVariableField(vf, vf.cur, vf.off, vf.len) :
           vf' = [o.r EXCEPT !.done = TRUE, !.res = VfResult(o)]
    /\ UNCHANGED <<chain, rd, wr, ct, cd, bo, cl, bw, fs, pk, lm, sz, nt>>

NextVarField ==
    \/ CallReadVariableFieldStream
    \/ CallReadVariableField

SpecVarField == InitVarField /\ [][NextVarField]_vars

(* C34: ReadVariableFieldStream. For cur <= off and len > 0, over any      *)
(* source, short-reading ones included, and any destination, a BytesWriter *)
(* of len bytes included, a call that returns no error has written to dst  *)
(* exactly the len source bytes at the packet offsets [off, off+len) and   *)
(* returns off - cur + len as the bytes consumed from r.                   *)
C34_VariableField ==
    (vf.done /\ vf.cur <= vf.off /\ vf.len > 0 /\ vf.res.err = Nil) =>
        /\ vf.res.bytes = SrcBytes(vf.off, vf.len)
        /\ vf.res.n = vf.off - vf.cur + vf.len
        /\ vf.src = vf.res.n

(* Discard(r, n) on the source r consumed what it returned, and exactly n  *)
(* bytes when it returned no error.                                        *)
DiscardsExactly(r, n) ==
    \A o \in Discard("raw", r, n) :
        /\ o.r.src = r.src + o.n
        /\ n = 0 => (o.n = 0 /\ o.err = Nil)
        /\ n < 0 => (o.n = 0 /\ o.err = ErrDiscardNegative)
        /\ (n > 0 /\ o.err = Nil) => o.n = n

(* C35: Discard exactness. Discard(r, 0) consumes nothing and succeeds;    *)
(* Discard(r, n) with n < 0 fails with DiscardNegative and consumes        *)
(* nothing; for n > 0, whenever Discard(r, n) returns a nil error it has   *)
(* consumed exactly n bytes from r and returns n, for every source,        *)
(* including one whose Read may return fewer bytes than requested.         *)
C35_DiscardExact ==
    fs.kind = "forwardSeeker" => \A n \in FsOffsets : DiscardsExactly(fs, n)

(***************************************************************************)
(*                      NULL-TERMINATED STRINGS                            *)
(***************************************************************************)
MaxNtLen == 3
MaxNtCalls == 2

(* The byte values of a source: the terminator and two others. *)
NtBytes == {0, 1, 2}

NtSeqs == UNION {[1..k -> NtBytes] : k \in 0..MaxNtLen}

NtOut(r, bytes, n, err) == [r |-> r, bytes |-> bytes, n |-> n, err |-> err]

(* br.ReadByte() of a source at pos: <<b, err>>. The source fails at       *)
(* failAt when that is a position of it.                                   *)
NtReadByte(r) ==
    IF r.pos = r.failAt THEN <<0, ErrSource>>
    ELSE IF r.pos >= Len(r.data) THEN <<0, EOF>>
    ELSE <<r.data[r.pos + 1], Nil>>

(* r.Read(p) with len(p) = 1: <<n, p[0], err>>; a source with eager set    *)
(* returns io.EOF together with its last byte.                             *)
NtRead(r) ==
    IF r.pos = r.failAt THEN <<0, 0, ErrSource>>
    ELSE IF r.pos >= Len(r.data) THEN <<0, 0, EOF>>
    ELSE <<1, r.data[r.pos + 1],
           IF r.eager /\ r.pos + 1 = Len(r.data) THEN EOF ELSE Nil>>

(* What the function returns once its loop is left by a break; the count   *)
(* is int64(str.Len()).                                                    *)
NtDone(r, str, pos0) == NtOut(r, str, Len(str), Nil)

(* The loop over br.ReadByte(). *)
RECURSIVE ByteReaderLoop(_, _, _)
ByteReaderLoop(r, str, pos0) ==
    LET rb == NtReadByte(r)
        r2 == [r EXCEPT !.pos = r.pos + 1]
    IN  IF rb[2] = EOF THEN NtDone(r, str, pos0)
        ELSE IF rb[2] # Nil THEN NtOut(r, <<>>, Len(str), rb[2])
        ELSE IF rb[1] = 0 THEN NtDone(r2, str, pos0)
        ELSE ByteReaderLoop(r2, Append(str, rb[1]), pos0)

(* The loop over r.Read(p) with a one-byte p. *)
RECURSIVE ReadLoop(_, _, _)
ReadLoop(r, str, pos0) ==
    LET rd1 == NtRead(r)
        r2 == [r EXCEPT !.pos = r.pos + rd1[1]]
        str2 == IF rd1[1] > 0 THEN Append(str, rd1[2]) ELSE str
    IN  IF rd1[1] > 0 /\ rd1[2] = 0 THEN NtDone(r2, str, pos0)
        ELSE IF rd1[3] = EOF THEN NtDone(r2, str2, pos0)
        ELSE IF rd1[3] # Nil THEN NtOut(r2, <<>>, Len(str2), rd1[3])
        ELSE ReadLoop(r2, str2, pos0)

(* ReadUntilNullOrEOF(r) *)
ReadUntilNullOrEOF(r) ==
    IF r.byteReader THEN ByteReaderLoop(r, <<>>, r.pos) ELSE ReadLoop(r, <<>>, r.pos)

NtCall(r, o) == [op |-> "ReadUntilNullOrEOF", pos0 |-> r.pos, bytes |-> o.bytes,
                 n |-> o.n, err |-> o.err]
NoNtCall == [op |-> "none", pos0 |-> 0, bytes |-> <<>>, n |-> 0, err |-> Nil]

(* A source of at most MaxNtLen bytes, with or without ReadByte, that may  *)
(* fail at one position (failAt = -1: it never fails).                     *)
InitNullTerminated ==
    /\ \E data \in NtSeqs, br \in BOOLEAN, eager \in BOOLEAN :
         \E failAt \in (-1)..Len(data) :
           nt = [kind |-> "source", data |-> data, pos |-> 0, byteReader |-> br,
                 eager |-> eager, failAt |-> failAt, calls |-> 0, last |-> NoNtCall]
    /\ chain = IdleChain /\ rd = IdleRd /\ wr = IdleWr /\ ct = IdleCt /\ cd = IdleCd
    /\ bo = IdleBo /\ cl = IdleCl /\ bw = IdleBw /\ fs = IdleFs /\ pk = IdlePk
    /\ lm = IdleLm /\ sz = IdleSz /\ vf = IdleVf

CallReadUntilNullOrEOF ==
    /\ nt.kind = "source" /\ nt.calls < MaxNtCalls
    /\ nt' = [ReadUntilNullOrEOF(nt).r EXCEPT
                  !.calls = nt.calls + 1,
                  !.last = NtCall(nt, ReadUntilNullOrEOF(nt))]
    /\ UNCHANGED <<chain, rd, wr, ct, cd, bo, cl, bw, fs, pk, lm, sz, vf>>

NextNullTerminated == CallReadUntilNullOrEOF

SpecNullTerminated == InitNullTerminated /\ [][NextNullTerminated]_vars

(* The bytes of the source from pos0 on, and the offset among them of the  *)
(* first terminator (0 when there is none).                                *)
NtAhead(r) == SubSeq(r.data, r.last.pos0 + 1, Len(r.data))
FirstNull(s) ==
    IF \E i \in 1..Len(s) : s[i] = 0
    THEN CHOOSE i \in 1..Len(s) : s[i] = 0 /\ \A j \in 1..(i - 1) : s[j] # 0
    ELSE 0

(* The call consumed up to and including the first terminator, or to the   *)
(* end, and returned the bytes before it.                                  *)
NtConsumes(r) ==
    LET ahead == NtAhead(r)
        z == FirstNull(ahead)
        used == IF z > 0 THEN z ELSE Len(ahead)
    IN  /\ r.pos = r.last.pos0 + used
        /\ r.last.bytes = Take(ahead, IF z > 0 THEN z - 1 ELSE used)

(* C40: ReadUntilNullOrEOF consumption. On both the ByteReader path and    *)
(* the one-byte Read loop, the call consumes source bytes up to and        *)
(* including the first 0x00 (or to clean end-of-stream), returns the bytes *)
(* before the terminator, leaves every byte after the terminator unread,   *)
(* and the int64 it returns equals the number of bytes it consumed from r, *)
(* the terminator included when one was found.                             *)
C40_NullTerminated ==
    (nt.kind = "source" /\ nt.last.op = "ReadUntilNullOrEOF" /\ nt.last.err = Nil) =>
        /\ NtConsumes(nt)
        /\ nt.last.n = nt.pos - nt.last.pos0



=============================================================================
